---- MODULE Spec2Model ----
(***************************************************************************)
(* Loan valuation engine (jeff-stratofied/loan-valuation).                 *)
(*                                                                         *)
(* The repository holds several drafts of valuationEngine.js.  Each draft  *)
(* that the valuation contract is drawn from is modelled as its own        *)
(* operation:                                                              *)
(*   part_000      src/unnamed/part_000              (suffix _p0)          *)
(*   part_001      src/unnamed/part_001, lines 1-440 (no suffix)           *)
(*   engine2       src/valuationEngine.js, 117-433   (suffix _e2)          *)
(*   engine1       src/valuationEngine.js, 1-116     (suffix _e1)          *)
(*                                                                         *)
(* Numbers.  JavaScript numbers are modelled as exact rationals <<n, d>>   *)
(* with d > 0 in lowest terms; NaN is <<0, 0>>, +Infinity is <<1, 0>>;     *)
(* null / undefined is the empty tuple <<>>.  A nullable integer (a FICO   *)
(* score, a loan field) is <<>> or the one-element tuple <<v>>.            *)
(* Strings on which the code calls trim() or toLowerCase() are sequences   *)
(* of one-character strings.                                               *)
(***************************************************************************)
EXTENDS Integers, Sequences, FiniteSets, TLC

VARIABLES VALUATION_CURVES, SCHOOLTIERS, pc, engine, loan, borrower,
          riskFreeRate, loc, result, arg, ret,
          VALUATION_OVERRIDES, BORROWERS

vars == <<VALUATION_CURVES, SCHOOLTIERS, pc, engine, loan, borrower,
          riskFreeRate, loc, result, arg, ret,
          VALUATION_OVERRIDES, BORROWERS>>

(***************************************************************************)
(* Bounds of the model                                                     *)
(***************************************************************************)
\* longest simulated horizon, in months
MaxHorizon == 12
\* recoveryLagMonths ranges over 0..MaxLag
MaxLag == 2
\* yearInSchool ranges over 1..MaxYear
MaxYear == 5
\* horizons up to MaxShort months are also discounted at 1/2 per month
MaxShort == 2

(***************************************************************************)
(* Rational arithmetic                                                     *)
(***************************************************************************)
Null == <<>>
NaN == <<0, 0>>
Inf == <<1, 0>>

\* The arithmetic is written as functions: an argument is evaluated once,
\* when the function is applied.
Q == Int \X Int

Abs(x) == IF x < 0 THEN -x ELSE x

GCD[a \in Nat, b \in Nat] == IF b = 0 THEN a ELSE GCD[b, a % b]

Norm[n \in Int, d \in Int] ==
  IF d = 0 THEN (IF n = 0 THEN NaN ELSE Inf)
  ELSE LET s == IF d < 0 THEN -1 ELSE 1
           g == GCD[Abs(n), Abs(d)]
       IN <<(s * n) \div g, (s * d) \div g>>

R(n) == <<n, 1>>
Zero == <<0, 1>>
One == <<1, 1>>

IsFinite(x) == Len(x) = 2 /\ x[2] # 0

LCM[a \in Nat, b \in Nat] == (a \div GCD[a, b]) * b

RAdd[x \in Q, y \in Q] ==
  LET l == LCM[x[2], y[2]]
  IN Norm[x[1] * (l \div x[2]) + y[1] * (l \div y[2]), l]

RNeg[x \in Q] == <<-x[1], x[2]>>
RSub[x \in Q, y \in Q] == RAdd[x, RNeg[y]]

RMul[x \in Q, y \in Q] ==
  LET g1 == GCD[Abs(x[1]), y[2]]
      g2 == GCD[Abs(y[1]), x[2]]
      h1 == IF g1 = 0 THEN 1 ELSE g1
      h2 == IF g2 = 0 THEN 1 ELSE g2
  IN Norm[(x[1] \div h1) * (y[1] \div h2), (x[2] \div h2) * (y[2] \div h1)]

RDiv[x \in Q, y \in Q] ==
  IF y[1] = 0 THEN (IF x[1] = 0 THEN NaN ELSE Inf)
  ELSE RMul[x, Norm[y[2], y[1]]]

RLt[x \in Q, y \in Q] ==
  LET l == LCM[x[2], y[2]] IN x[1] * (l \div x[2]) < y[1] * (l \div y[2])
RLe[x \in Q, y \in Q] ==
  LET l == LCM[x[2], y[2]] IN x[1] * (l \div x[2]) <= y[1] * (l \div y[2])
RMin[x \in Q, y \in Q] == IF RLe[x, y] THEN x ELSE y
RMax[x \in Q, y \in Q] == IF RLe[y, x] THEN x ELSE y

\* Math.pow(x, k) for a natural k
RPow[x \in Q, k \in Nat] ==
  IF k = 0 THEN One
  ELSE IF k % 2 = 0 THEN RPow[RMul[x, x], k \div 2]
  ELSE RMul[x, RPow[x, k - 1]]

(***************************************************************************)
(* Strings as character sequences: String.prototype.trim / toLowerCase     *)
(***************************************************************************)
UpperChars == <<"A", "B", "C", "D", "E", "F", "G", "H", "I", "J", "K", "L", "M",
                "N", "O", "P", "Q", "R", "S", "T", "U", "V", "W", "X", "Y", "Z">>
LowerChars == <<"a", "b", "c", "d", "e", "f", "g", "h", "i", "j", "k", "l", "m",
                "n", "o", "p", "q", "r", "s", "t", "u", "v", "w", "x", "y", "z">>

LowerChar(c) ==
  IF \E i \in 1..26 : UpperChars[i] = c
    THEN LowerChars[CHOOSE i \in 1..26 : UpperChars[i] = c]
    ELSE c

toLowerCase(s) == [i \in 1..Len(s) |-> LowerChar(s[i])]

RECURSIVE TrimLeft(_)
TrimLeft(s) == IF s # <<>> /\ Head(s) = " " THEN TrimLeft(Tail(s)) ELSE s

RECURSIVE TrimRight(_)
TrimRight(s) ==
  IF s # <<>> /\ s[Len(s)] = " " THEN TrimRight(SubSeq(s, 1, Len(s) - 1)) ELSE s

trim(s) == TrimRight(TrimLeft(s))

(***************************************************************************)
(* Risk derivation                                                         *)
(***************************************************************************)
\* JavaScript truthiness of a nullable number: null, undefined and 0 are falsy.
Truthy(x) == x # Null /\ x[1] # 0

\* a band table whose B threshold is compared with > instead of >=
deriveFicoBand_strictB(fico) ==
  IF fico = Null THEN "UNKNOWN"
  ELSE IF RLe[R(760), fico] THEN "A"
  ELSE IF RLt[R(720), fico] THEN "B"
  ELSE IF RLe[R(680), fico] THEN "C"
  ELSE IF RLe[R(640), fico] THEN "D"
  ELSE "E"

\* deriveFicoBand(fico): fico is Null or a rational score.
deriveFicoBand(fico) ==
  IF fico = Null THEN "UNKNOWN"
  ELSE IF RLe[R(760), fico] THEN "A"
  ELSE IF RLe[R(720), fico] THEN "B"
  ELSE IF RLe[R(680), fico] THEN "C"
  ELSE IF RLe[R(640), fico] THEN "D"
  ELSE "E"

alpha == <<7, 10>>

\* the blend without the Math.max floor
blendedFico_noFloor(b) ==
  IF Truthy(b.borrowerFico)
    THEN LET own == R(b.borrowerFico[1])
             other == IF Truthy(b.cosignerFico) THEN R(b.cosignerFico[1]) ELSE own
         IN RAdd[RMul[alpha, own], RMul[RSub[One, alpha], other]]
    ELSE IF Truthy(b.cosignerFico) THEN R(b.cosignerFico[1]) ELSE Zero

\* the blend that ignores the cosigner when the borrower score is missing
blendedFico_noCosignerFallback(b) ==
  IF Truthy(b.borrowerFico)
    THEN LET own == R(b.borrowerFico[1])
             other == IF Truthy(b.cosignerFico) THEN R(b.cosignerFico[1]) ELSE own
         IN RMax[own, RAdd[RMul[alpha, own], RMul[RSub[One, alpha], other]]]
    ELSE Zero

\* blendedFico of deriveRiskTier (part_000, part_001, engine2 share the text)
blendedFico(b) ==
  IF Truthy(b.borrowerFico)
    THEN LET own == R(b.borrowerFico[1])
             other == IF Truthy(b.cosignerFico) THEN R(b.cosignerFico[1]) ELSE own
         IN RMax[own, RAdd[RMul[alpha, own], RMul[RSub[One, alpha], other]]]
    ELSE IF Truthy(b.cosignerFico) THEN R(b.cosignerFico[1]) ELSE Zero

\* yearInSchool >= 3 in JavaScript: null coerces to 0
YearAtLeast(y, k) == IF y = Null THEN 0 >= k ELSE y[1] >= k

TierOfBand(band, yearInSchool) ==
  IF band = "A" /\ YearAtLeast(yearInSchool, 3) THEN "LOW"
  ELSE IF band \in {"A", "B"} THEN "MEDIUM"
  ELSE IF band \in {"C", "D"} THEN "HIGH"
  ELSE "VERY_HIGH"

deriveRiskTier(b) == TierOfBand(deriveFicoBand(blendedFico(b)), b.yearInSchool)

(***************************************************************************)
(* School tier table.  SCHOOLTIERS is [loaded, entries]; entries is the    *)
(* JSON object in key order, one record per key:                           *)
(*   [key, name, tier, median_earnings_10yr]                               *)
(* tier "" stands for a missing tier field (falsy in `tier || "Tier 3"`).  *)
(***************************************************************************)
DEFAULT == <<"D", "E", "F", "A", "U", "L", "T">>
FallbackEarnings == 50000

HasKey(T, k) == \E i \in 1..Len(T.entries) : T.entries[i].key = k
IndexOfKey(T, k) == CHOOSE i \in 1..Len(T.entries) : T.entries[i].key = k
Lookup(T, k) == T.entries[IndexOfKey(T, k)]

TypeError == "TypeError"

\* getSchoolTier of part_000 and part_001 (same text).  Returns
\* [threw, tier, table]: the table is returned because the function writes
\* median_earnings_10yr on the entry it resolved.
getSchoolTier(T, schoolName, opeid) ==
  IF ~T.loaded THEN [threw |-> "", tier |-> "Tier 3", table |-> T]
  ELSE
    LET k == IF opeid # <<>>
               THEN (IF HasKey(T, trim(opeid)) THEN trim(opeid) ELSE DEFAULT)
               ELSE DEFAULT
    IN IF ~HasKey(T, k)
         THEN [threw |-> TypeError, tier |-> "", table |-> T]
         ELSE
           LET i == IndexOfKey(T, k)
               e == T.entries[i]
               T2 == IF e.median_earnings_10yr = Null
                       THEN [T EXCEPT !.entries[i].median_earnings_10yr = <<FallbackEarnings>>]
                       ELSE T
           IN [threw |-> "", tier |-> (IF e.tier # "" THEN e.tier ELSE "Tier 3"),
               table |-> T2]

Unknown == <<"u", "n", "k", "n", "o", "w", "n">>

NameMatches(T, n) ==
  {i \in 1..Len(T.entries) :
     T.entries[i].name # <<>> /\ toLowerCase(T.entries[i].name) = n}

Min(S) == CHOOSE x \in S : \A y \in S : x <= y

DefaultTierOr3(T) ==
  IF HasKey(T, DEFAULT) /\ Lookup(T, DEFAULT).tier # ""
    THEN Lookup(T, DEFAULT).tier ELSE "Tier 3"

\* getSchoolTier of valuationEngine.js (second draft): the OPEID test trims,
\* the reads that follow it index the table with the untrimmed OPEID.
getSchoolTier_e2(T, schoolName, opeid) ==
  IF ~T.loaded THEN [threw |-> "", tier |-> "Tier 3", table |-> T]
  ELSE IF opeid # <<>> /\ HasKey(T, trim(opeid))
    THEN (IF HasKey(T, opeid)
            THEN [threw |-> "", tier |-> Lookup(T, opeid).tier, table |-> T]
            ELSE [threw |-> TypeError, tier |-> "", table |-> T])
  ELSE
    LET normalizedName == toLowerCase(trim(schoolName))
    IN IF normalizedName = <<>> \/ normalizedName = Unknown
         THEN [threw |-> "", tier |-> DefaultTierOr3(T), table |-> T]
       ELSE IF NameMatches(T, normalizedName) # {}
         THEN [threw |-> "",
               tier |-> T.entries[Min(NameMatches(T, normalizedName))].tier,
               table |-> T]
       ELSE [threw |-> "", tier |-> DefaultTierOr3(T), table |-> T]

\* getSchoolAdjBps of part_000 and part_001: adjMap[tier] || +100
adjMap(tier) ==
  CASE tier = "Tier 1" -> <<-75>>
    [] tier = "Tier 2" -> <<0>>
    [] tier = "Tier 3" -> <<125>>
    [] tier = "Unknown" -> <<100>>
    [] OTHER -> Null

getSchoolAdjBps(tier) == IF Truthy(adjMap(tier)) THEN adjMap(tier)[1] ELSE 100

\* getSchoolAdjBps of valuationEngine.js (second draft): adjMap[tier] || 0
adjMap_e2(tier) ==
  CASE tier = "Tier 1" -> <<-50>>
    [] tier = "Tier 2" -> <<0>>
    [] tier = "Tier 3" -> <<75>>
    [] OTHER -> Null

getSchoolAdjBps_e2(tier) == IF Truthy(adjMap_e2(tier)) THEN adjMap_e2(tier)[1] ELSE 0

(***************************************************************************)
(* Payment math, curve interpolation                                       *)
(***************************************************************************)
\* Math.pow(x, k) for an integer k of either sign
RPowZ(x, k) == IF k >= 0 THEN RPow[x, k] ELSE RDiv[One, RPow[x, -k]]

\* the payment without the annuity denominator: interest only
computeMonthlyPayment_interestOnly(principal, annualRate, months) ==
  RMul[principal, RDiv[annualRate, R(12)]]

\* computeMonthlyPayment(principal, annualRate, months)
computeMonthlyPayment(principal, annualRate, months) ==
  LET r == RDiv[annualRate, R(12)]
  IN RDiv[RMul[principal, r], RSub[One, RPowZ(RAdd[One, r], -months)]]

\* x^(1/12) on the grid of values whose twelfth root is rational
RootGrid == {Zero, <<1, 2>>, One}
Root12(x) == CHOOSE r \in RootGrid : RPow[r, 12] = x

\* 1 - Math.pow(1 - pct/100, 1/12).  Off the grid the root is irrational: the
\* hazard is then kept as the term [hazardOfAnnual |-> pct/100], equal to
\* another hazard exactly when the annual rates are equal.
MonthlyHazard(pct) ==
  IF \E r \in RootGrid : RPow[r, 12] = RSub[One, RDiv[pct, R(100)]]
    THEN RSub[One, Root12(RSub[One, RDiv[pct, R(100)]])]
    ELSE [hazardOfAnnual |-> RDiv[pct, R(100)]]

\* the cumulative series taken for the marginal one (no first difference)
AnnualMarginals_undifferenced(cum) == cum

\* cumDefaultsPct.map((cum, i) => i === 0 ? cum : cum - cumDefaultsPct[i-1])
AnnualMarginals(cum) ==
  [i \in 1..Len(cum) |-> IF i = 1 THEN cum[1] ELSE RSub[cum[i], cum[i - 1]]]

\* while (v.length < maxMonths) v.push(v[v.length - 1] || 0)
PadFlat(v, maxMonths) ==
  IF Len(v) < maxMonths
    THEN [k \in 1..maxMonths |->
            IF k <= Len(v) THEN v[k] ELSE IF v # <<>> THEN v[Len(v)] ELSE Zero]
    ELSE v

\* part_001: both loops test `length < maxMonths` before every push
RECURSIVE Broadcast(_, _, _, _)
Broadcast(annual, y, v, maxMonths) ==
  IF y > Len(annual) \/ Len(v) >= maxMonths THEN v
  ELSE LET monthly == MonthlyHazard(annual[y])
           n == IF maxMonths - Len(v) < 12 THEN maxMonths - Len(v) ELSE 12
       IN Broadcast(annual, y + 1, v \o [k \in 1..n |-> monthly], maxMonths)

interpolateCumulativeDefaultsToMonthlyPD(cumDefaultsPct, maxMonths) ==
  PadFlat(Broadcast(AnnualMarginals(cumDefaultsPct), 1, <<>>, maxMonths), maxMonths)

interpolateAnnualCPRToMonthlySMM(annualCPRPct, maxMonths) ==
  PadFlat(Broadcast(annualCPRPct, 1, <<>>, maxMonths), maxMonths)

\* part_000 and valuationEngine.js: the loops push first and test
\* `length >= termMonths` after the push
RECURSIVE Broadcast_p0(_, _, _, _)
Broadcast_p0(annual, y, v, termMonths) ==
  IF y > Len(annual) THEN v
  ELSE LET monthly == MonthlyHazard(annual[y])
           room == termMonths - Len(v)
           n == IF room < 1 THEN 1 ELSE IF room < 12 THEN room ELSE 12
           v2 == v \o [k \in 1..n |-> monthly]
       IN IF Len(v2) >= termMonths THEN v2
          ELSE Broadcast_p0(annual, y + 1, v2, termMonths)

interpolateCumulativeDefaultsToMonthlyPD_p0(cumDefaultsPct, termMonths) ==
  PadFlat(Broadcast_p0(AnnualMarginals(cumDefaultsPct), 1, <<>>, termMonths), termMonths)

interpolateAnnualCPRToMonthlySMM_p0(annualCPRPct, termMonths) ==
  PadFlat(Broadcast_p0(annualCPRPct, 1, <<>>, termMonths), termMonths)

(***************************************************************************)
(* Loan fields and the amortization schedule                               *)
(*                                                                         *)
(* A loan is [loanId, principal, rate, termYears, graceYears, events,      *)
(* monthsElapsed]: the numeric fields are <<>> (missing) or <<v>>; rate is  *)
(* the field loan.rate (loan.nominalRate in part_001);                     *)
(* monthsElapsed is the number of schedule rows dated on or before today   *)
(* (`r.loanDate <= new Date()`).                                           *)
(***************************************************************************)
\* Number(x) || 0
NumberOr(x, dflt) == IF Truthy(x) THEN R(x[1]) ELSE R(dflt)
\* Number(x): undefined gives NaN
Number(x) == IF x = Null THEN NaN ELSE R(x[1])
\* !x for a number: 0 and NaN are falsy
Falsy(x) == ~IsFinite(x) \/ x[1] = 0

HasDefaultEvent(l) == \E i \in 1..Len(l.events) : l.events[i].type = "default"

\* loanEngine.js is not part of the sources at hand; the schedule is built as
\* the specification describes it (4.1): a level-payment schedule over
\* 12*(termYears+graceYears) months, truncated at a default event, empty for
\* invalid loan basics.
AmortRow(bal, r, payment, i) ==
  LET interest == RMul[bal, r]
      princ == RMin[RSub[payment, interest], bal]
  IN [month |-> i, principal |-> princ, interest |-> interest,
      balance |-> RSub[bal, princ]]

\* balance outstanding after i level payments at monthly rate r > 0, in the
\* closed form of the recurrence bal' = bal - min(payment - bal*r, bal)
BalanceAfter(P, r, payment, i) ==
  LET q == RPow[RAdd[One, r], i]
  IN RMax[Zero, RSub[RMul[P, q], RDiv[RMul[payment, RSub[q, One]], r]]]

AmortUpTo(P, r, payment, n) ==
  [i \in 1..n |-> AmortRow(BalanceAfter(P, r, payment, i - 1), r, payment, i)]

buildAmortSchedule(l) ==
  LET P == NumberOr(l.principal, 0)
      rate == NumberOr(l.rate, 0)
      n == 12 * ((IF l.termYears = Null THEN 0 ELSE l.termYears[1])
                 + (IF l.graceYears = Null THEN 0 ELSE l.graceYears[1]))
  IN IF ~RLt[Zero, P] \/ ~RLt[Zero, rate] \/ n <= 0 THEN <<>>
     ELSE LET rows == AmortUpTo(P, RDiv[rate, R(12)],
                                computeMonthlyPayment(P, rate, n), n)
              cut == IF HasDefaultEvent(l)
                       THEN (CHOOSE i \in 1..Len(l.events) :
                               l.events[i].type = "default")
                       ELSE 0
          IN IF cut = 0 THEN rows
             ELSE SubSeq(rows, 1, IF l.events[cut].month < n
                                    THEN l.events[cut].month ELSE n)

\* index (1-based, 0 for none) of the latest row dated on or before today
CurrentRowIndex(l, rows) ==
  IF l.monthsElapsed < Len(rows) THEN l.monthsElapsed ELSE Len(rows)

(***************************************************************************)
(* valueLoan, part_001                                                     *)
(*                                                                         *)
(* VALUATION_CURVES is [loaded |-> FALSE] (null) or                        *)
(*   [loaded, riskTiers, degreeAdjustmentsBps, yearInSchoolAdjustmentsBps, *)
(*    graduateAdjustmentBps]                                               *)
(* with riskTiers a function from the tier names present to curves         *)
(*   [riskPremiumBps, defaultCurve, prepaymentCurve, recovery].            *)
(* A call is split at the loop: the Begin step runs the function up to the *)
(* first iteration (or to its return / throw), one step runs one           *)
(* iteration, the Finish step runs what follows the loop.                  *)
(***************************************************************************)
CurvesNotLoaded == "Valuation curves not loaded"

Returned(rec) == [kind |-> "return", result |-> rec]
\* an exception swallowed into a record
Threw_swallowed(err) == [kind |-> "return", result |-> [threw |-> ""]]
\* throw new Error(err): the call ends with no record
Threw(err) == [kind |-> "throw", result |-> [threw |-> err]]

UnknownRecord(l) ==
  [threw |-> "", loanId |-> l.loanId, riskTier |-> "UNKNOWN", discountRate |-> Null,
   npv |-> NaN, npvRatio |-> Null, expectedLoss |-> NaN, wal |-> NaN, irr |-> NaN]

\* the literal the fallback chain ends in: { riskPremiumBps: 550 }
FallbackCurve == [riskPremiumBps |-> 550]

normalizedDegree(b) ==
  IF b.degreeType \in {"Professional", "Business", "STEM"} THEN b.degreeType
  ELSE "Other"

\* map?.[key] ?? 0
BpsOr0(map, key) == IF key \in DOMAIN map THEN map[key] ELSE 0

yearKey(b) ==
  IF YearAtLeast(b.yearInSchool, 5) THEN "5+"
  ELSE IF b.yearInSchool = Null THEN "null" ELSE ToString(b.yearInSchool[1])

degreeAdj(VC, b) == BpsOr0(VC.degreeAdjustmentsBps, normalizedDegree(b))
yearAdj(VC, b) == BpsOr0(VC.yearInSchoolAdjustmentsBps, yearKey(b))
gradAdj(VC, b) ==
  IF b.isGraduateStudent
    THEN (IF VC.graduateAdjustmentBps = Null THEN 0 ELSE VC.graduateAdjustmentBps[1])
    ELSE 0

Fill(n, x) == [k \in 1..n |-> x]

\* The state of the cash-flow loop before month 1.
LoopStart(fields) ==
  [m |-> 1, balance |-> fields.principal, npv |-> Zero, totalDefaults |-> Zero,
   totalRecoveries |-> Zero, walNumerator |-> Zero, totalCF |-> Zero]
  @@ fields

\* From the risk tier to the state before month 1 (lines 226-324): principal
\* is the seasoned balance, termMonths the remaining term.
valueLoan_Setup(l, b, rfr, VC, ST, principal, termMonths) ==
  LET rate == NumberOr(l.rate, 0)
      riskTier == deriveRiskTier(b)
      curve == IF riskTier \in DOMAIN VC.riskTiers THEN VC.riskTiers[riskTier]
               ELSE IF "HIGH" \in DOMAIN VC.riskTiers THEN VC.riskTiers["HIGH"]
               ELSE FallbackCurve
      st == getSchoolTier(ST, b.school, b.opeid)
      schoolAdj == getSchoolAdjBps(st.tier)
      totalRiskBps == curve.riskPremiumBps + degreeAdj(VC, b) + schoolAdj
                      + yearAdj(VC, b) + gradAdj(VC, b)
      discountRate == RAdd[rfr, Norm[totalRiskBps, 10000]]
  IN
  IF st.threw # "" THEN Threw(st.threw) @@ [table |-> ST]
  ELSE IF "defaultCurve" \notin DOMAIN curve
    THEN Threw(TypeError) @@ [table |-> st.table]
  ELSE
    [kind |-> "loop", table |-> st.table,
     loc |-> LoopStart(
       [originalPrincipal |-> NumberOr(l.principal, 0), principal |-> principal,
        termMonths |-> termMonths,
        monthlyPayment |-> computeMonthlyPayment(principal, rate, termMonths),
        schedule |-> <<>>,
        monthlyLoanRate |-> RDiv[rate, R(12)],
        monthlyPD |-> interpolateCumulativeDefaultsToMonthlyPD(
                        curve.defaultCurve.cumulativeDefaultPct, termMonths),
        monthlySMM |-> interpolateAnnualCPRToMonthlySMM(
                         curve.prepaymentCurve.valuesPct, termMonths),
        recoveryPct |-> RDiv[R(curve.recovery.grossRecoveryPct), R(100)],
        recoveryLag |-> curve.recovery.recoveryLagMonths,
        riskTier |-> riskTier, discountRate |-> discountRate,
        monthlyDiscountRate |-> RDiv[discountRate, R(12)],
        riskBreakdown |-> [baseRiskBps |-> curve.riskPremiumBps,
                           degreeAdj |-> degreeAdj(VC, b), schoolAdj |-> schoolAdj,
                           yearAdj |-> yearAdj(VC, b), gradAdj |-> gradAdj(VC, b),
                           totalRiskBps |-> totalRiskBps, schoolTier |-> st.tier],
        cashFlows |-> <<RNeg[principal]>>,
        recoveryQueue |-> Fill(termMonths + curve.recovery.recoveryLagMonths + 1, Zero)])]

\* From the schedule to the matured / paid-off return (lines 187-222).
valueLoan_Seasoned(l, b, rfr, VC, ST, amort) ==
  LET idx == CurrentRowIndex(l, amort)
      rowBalance == IF idx > 0 THEN amort[idx].balance ELSE NumberOr(l.principal, 0)
      currentBalance == IF RLt[rowBalance, Zero] THEN Zero ELSE rowBalance
      remainingMonths ==
        IF idx > 0 THEN Len(amort) - idx
        ELSE (IF Truthy(l.termYears) THEN l.termYears[1] ELSE 10) * 12
             + (IF Truthy(l.graceYears) THEN l.graceYears[1] ELSE 0) * 12
      effectiveRemainingMonths == IF remainingMonths > 1 THEN remainingMonths ELSE 1
  IN
  IF RLe[currentBalance, Zero] \/ effectiveRemainingMonths <= 0
    THEN Returned([threw |-> "", loanId |-> l.loanId, riskTier |-> deriveRiskTier(b),
                   discountRate |-> rfr, npv |-> Zero, npvRatio |-> Zero,
                   expectedLoss |-> Zero, wal |-> Zero, irr |-> Zero,
                   riskBreakdown |-> <<>>, curve |-> Null]) @@ [table |-> ST]
  ELSE IF remainingMonths > MaxHorizon THEN [kind |-> "outside"]
  ELSE valueLoan_Setup(l, b, rfr, VC, ST, currentBalance, remainingMonths)

\* valueLoan of part_001 up to the first iteration of its loop.
valueLoan_Begin(l, b, rfr, VC, ST) ==
  LET originalPrincipal == NumberOr(l.principal, 0)
      rate == NumberOr(l.rate, 0)
      originalTermMonths ==
        (IF Truthy(l.termYears) THEN l.termYears[1] ELSE 10) * 12
        + (IF Truthy(l.graceYears) THEN l.graceYears[1] ELSE 0) * 12
  IN
  IF RLe[originalPrincipal, Zero] \/ RLe[rate, Zero] \/ originalTermMonths <= 0
    THEN Returned(UnknownRecord(l)) @@ [table |-> ST]
  ELSE IF ~VC.loaded THEN Threw(CurvesNotLoaded) @@ [table |-> ST]
  ELSE \* const amort = buildAmortSchedule(loan): the schedule is built once
       CHOOSE o \in {valueLoan_Seasoned(l, b, rfr, VC, ST, amort) :
                       amort \in {buildAmortSchedule(l)}} : TRUE

\* the month with the default taken before the prepayment
SimulateMonth_defaultFirst(c, scheduledPayment, recMonth, lateFactor) ==
  LET m == c.m
      interest == RMul[c.balance, c.monthlyLoanRate]
      principalPaid == RMin[RSub[scheduledPayment, interest], c.balance]
      remaining0 == RSub[c.balance, principalPaid]
      defaultAmt == RMul[remaining0, c.monthlyPD[m]]
      remaining1 == RSub[remaining0, defaultAmt]
      prepay == RMul[remaining1, c.monthlySMM[m]]
      remaining == RSub[remaining1, prepay]
      queued == recMonth < Len(c.recoveryQueue)
      lateRecovery == RMul[defaultAmt, c.recoveryPct]
      queue == IF queued
                 THEN [c.recoveryQueue EXCEPT ![recMonth + 1] = RAdd[@, lateRecovery]]
                 ELSE c.recoveryQueue
      npv0 == IF queued THEN c.npv ELSE RAdd[c.npv, RMul[lateRecovery, lateFactor]]
      rec0 == IF queued THEN c.totalRecoveries ELSE RAdd[c.totalRecoveries, lateRecovery]
      recoveryThisMonth == queue[recMonth - c.recoveryLag + 1]
      cashFlow == RAdd[RAdd[interest, principalPaid], RAdd[prepay, recoveryThisMonth]]
      discountedCF == RDiv[cashFlow, RPow[RAdd[One, c.monthlyDiscountRate], m]]
  IN [c EXCEPT !.recoveryQueue = queue,
               !.cashFlows = Append(@, cashFlow),
               !.npv = RAdd[npv0, discountedCF],
               !.walNumerator = RAdd[@, RMul[discountedCF, R(m)]],
               !.totalCF = RAdd[@, discountedCF],
               !.totalDefaults = RAdd[@, defaultAmt],
               !.totalRecoveries = RAdd[rec0, recoveryThisMonth],
               !.balance = remaining,
               !.m = m + 1]

\* The body of one iteration of the cash-flow loop below the balance test,
\* shared by part_000, part_001 and the second draft of valuationEngine.js.
\* The drafts differ in the payment applied, in the queue slot recMonth a
\* default is recovered in, and in the exponent the late branch discounts
\* with.  Slot k of the code's recoveryQueue is recoveryQueue[k + 1] here;
\* the slot read for the month is recMonth - recoveryLag.
SimulateMonth(c, scheduledPayment, recMonth, lateFactor) ==
  LET m == c.m
      interest == RMul[c.balance, c.monthlyLoanRate]
      principalPaid == RMin[RSub[scheduledPayment, interest], c.balance]
      remaining0 == RSub[c.balance, principalPaid]
      prepay == RMul[remaining0, c.monthlySMM[m]]
      remaining1 == RSub[remaining0, prepay]
      defaultAmt == RMul[remaining1, c.monthlyPD[m]]
      remaining == RSub[remaining1, defaultAmt]
      queued == recMonth < Len(c.recoveryQueue)
      lateRecovery == RMul[defaultAmt, c.recoveryPct]
      queue == IF queued
                 THEN [c.recoveryQueue EXCEPT ![recMonth + 1] = RAdd[@, lateRecovery]]
                 ELSE c.recoveryQueue
      npv0 == IF queued THEN c.npv ELSE RAdd[c.npv, RMul[lateRecovery, lateFactor]]
      rec0 == IF queued THEN c.totalRecoveries ELSE RAdd[c.totalRecoveries, lateRecovery]
      recoveryThisMonth == queue[recMonth - c.recoveryLag + 1]
      cashFlow == RAdd[RAdd[interest, principalPaid], RAdd[prepay, recoveryThisMonth]]
      discountedCF == RDiv[cashFlow, RPow[RAdd[One, c.monthlyDiscountRate], m]]
  IN [c EXCEPT !.recoveryQueue = queue,
               !.cashFlows = Append(@, cashFlow),
               !.npv = RAdd[npv0, discountedCF],
               !.walNumerator = RAdd[@, RMul[discountedCF, R(m)]],
               !.totalCF = RAdd[@, discountedCF],
               !.totalDefaults = RAdd[@, defaultAmt],
               !.totalRecoveries = RAdd[rec0, recoveryThisMonth],
               !.balance = remaining,
               !.m = m + 1]

\* discountFactor(rate, month) = 1 / Math.pow(1 + rate / 12, month)
discountFactor(rate, month) == RDiv[One, RPow[RAdd[One, RDiv[rate, R(12)]], month]]

\* the iteration with `break`-like handling of a retired loan: no entry pushed
valueLoan_Month_noPush(c) ==
  IF RLe[c.balance, Zero]
    THEN [c EXCEPT !.m = @ + 1]
    ELSE SimulateMonth(c, c.monthlyPayment, c.m + c.recoveryLag,
                       RDiv[One, RPow[RAdd[One, c.monthlyDiscountRate],
                                      c.m + c.recoveryLag]])

\* One iteration of `for (let m = 1; m <= termMonths; m++)`, part_001:
\* recMonth = m + recoveryLag, the late branch divides by
\* Math.pow(1 + monthlyDiscountRate, recMonth).
valueLoan_Month(c) ==
  IF RLe[c.balance, Zero]
    THEN [c EXCEPT !.cashFlows = Append(@, Zero), !.m = @ + 1]
    ELSE SimulateMonth(c, c.monthlyPayment, c.m + c.recoveryLag,
                       RDiv[One, RPow[RAdd[One, c.monthlyDiscountRate],
                                      c.m + c.recoveryLag]])

\* the outputs with wal left in months (no division by 12)
valueLoan_Finish_walInMonths(l, c, VC) ==
  [threw |-> "", loanId |-> l.loanId, riskTier |-> c.riskTier,
   discountRate |-> c.discountRate, npv |-> c.npv,
   npvRatio |-> IF RLt[Zero, c.originalPrincipal] /\ IsFinite(c.npv)
                  THEN RSub[RDiv[c.npv, c.originalPrincipal], One] ELSE Null,
   expectedLoss |-> IF RLt[Zero, c.originalPrincipal]
                      THEN RDiv[RSub[c.totalDefaults, c.totalRecoveries],
                                c.originalPrincipal]
                      ELSE Zero,
   wal |-> IF RLt[Zero, c.totalCF]
             THEN RDiv[c.walNumerator, c.totalCF] ELSE NaN,
   irrCall |-> [cashFlows |-> c.cashFlows, principal |-> c.originalPrincipal],
   riskBreakdown |-> c.riskBreakdown,
   curve |-> IF c.riskTier \in DOMAIN VC.riskTiers THEN VC.riskTiers[c.riskTier]
             ELSE Null]

\* What follows the loop, part_001.  The IRR is solved separately
\* (calculateIRR); the record keeps the arguments of the call.
valueLoan_Finish(l, c, VC) ==
  [threw |-> "", loanId |-> l.loanId, riskTier |-> c.riskTier,
   discountRate |-> c.discountRate, npv |-> c.npv,
   npvRatio |-> IF RLt[Zero, c.originalPrincipal] /\ IsFinite(c.npv)
                  THEN RSub[RDiv[c.npv, c.originalPrincipal], One] ELSE Null,
   expectedLoss |-> IF RLt[Zero, c.originalPrincipal]
                      THEN RDiv[RSub[c.totalDefaults, c.totalRecoveries],
                                c.originalPrincipal]
                      ELSE Zero,
   wal |-> IF RLt[Zero, c.totalCF]
             THEN RDiv[RDiv[c.walNumerator, c.totalCF], R(12)] ELSE NaN,
   \* const irr = calculateIRR(cashFlows, originalPrincipal): the call's arguments
   irrCall |-> [cashFlows |-> c.cashFlows, principal |-> c.originalPrincipal],
   riskBreakdown |-> c.riskBreakdown,
   curve |-> IF c.riskTier \in DOMAIN VC.riskTiers THEN VC.riskTiers[c.riskTier]
             ELSE Null]

(***************************************************************************)
(* valueLoan, part_000                                                     *)
(***************************************************************************)
\* The schedule object part_000 reads (amort.schedule, amort.currentBalance):
\* one row per remaining month and the seasoned balance (specification 3,
\* AmortizationSchedule).
AmortizationSchedule(l) ==
  LET rows == buildAmortSchedule(l)
      idx == CurrentRowIndex(l, rows)
  IN [schedule |-> SubSeq(rows, idx + 1, Len(rows)),
      currentBalance |-> IF idx > 0 THEN rows[idx].balance
                         ELSE NumberOr(l.principal, 0)]

DefaultedRecord(l) ==
  [threw |-> "", loanId |-> l.loanId, riskTier |-> "DEFAULTED", discountRate |-> Null,
   npv |-> Zero, npvRatio |-> R(-100), expectedLoss |-> R(100), wal |-> Zero,
   irr |-> NaN, riskBreakdown |-> [note |-> "Loan defaulted"]]

NoCurveRecord(l, riskTier) ==
  [threw |-> "", loanId |-> l.loanId, riskTier |-> riskTier, discountRate |-> Null,
   npv |-> NaN, npvRatio |-> Null, expectedLoss |-> NaN, wal |-> NaN, irr |-> NaN]

\* Number(x) * 12 for a nullable integer field
Times12(x) == IF x = Null THEN NaN ELSE R(12 * x[1])

\* From the schedule to the state before month 1 (lines 187-303).
valueLoan_p0_Setup(l, b, rfr, VC, ST, amort) ==
  LET principalOrig == Number(l.principal)
      rate == Number(l.rate)
      principal == IF Falsy(amort.currentBalance) THEN principalOrig
                   ELSE amort.currentBalance
      remainingMonths == Len(amort.schedule)
      riskTier == deriveRiskTier(b)
  IN
  IF ~VC.loaded THEN Threw(CurvesNotLoaded) @@ [table |-> ST]
  ELSE IF riskTier \notin DOMAIN VC.riskTiers
    THEN Returned(NoCurveRecord(l, riskTier)) @@ [table |-> ST]
  ELSE
    LET curve == VC.riskTiers[riskTier]
        st == getSchoolTier(ST, b.school, b.opeid)
        schoolAdj == getSchoolAdjBps(st.tier)
        totalRiskBps == curve.riskPremiumBps + degreeAdj(VC, b) + schoolAdj
                        + yearAdj(VC, b) + gradAdj(VC, b)
        discountRate == RAdd[rfr, Norm[totalRiskBps, 10000]]
    IN
    IF st.threw # "" THEN Threw(st.threw) @@ [table |-> ST]
    ELSE
      [kind |-> "loop", table |-> st.table,
       loc |-> LoopStart(
         [originalPrincipal |-> principalOrig, principal |-> principal,
          termMonths |-> remainingMonths,
          monthlyPayment |-> computeMonthlyPayment(principalOrig, rate,
                                                   12 * l.termYears[1]),
          schedule |-> amort.schedule,
          monthlyLoanRate |-> RDiv[rate, R(12)],
          monthlyPD |-> interpolateCumulativeDefaultsToMonthlyPD_p0(
                          curve.defaultCurve.cumulativeDefaultPct, remainingMonths),
          monthlySMM |-> interpolateAnnualCPRToMonthlySMM_p0(
                           curve.prepaymentCurve.valuesPct, remainingMonths),
          recoveryPct |-> RDiv[R(curve.recovery.grossRecoveryPct), R(100)],
          recoveryLag |-> curve.recovery.recoveryLagMonths,
          riskTier |-> riskTier, discountRate |-> discountRate,
          monthlyDiscountRate |-> RDiv[discountRate, R(12)],
          riskBreakdown |-> [baseRiskBps |-> curve.riskPremiumBps,
                             degreeAdj |-> degreeAdj(VC, b), schoolAdj |-> schoolAdj,
                             yearAdj |-> yearAdj(VC, b), gradAdj |-> gradAdj(VC, b),
                             totalRiskBps |-> totalRiskBps, schoolTier |-> st.tier],
          cashFlows |-> <<RNeg[principal]>>,
          recoveryQueue |-> Fill(remainingMonths + curve.recovery.recoveryLagMonths + 1,
                                 Zero)])]

\* valueLoan of part_000 up to the first iteration of its loop.
valueLoan_p0_Begin(l, b, rfr, VC, ST) ==
  LET principalOrig == Number(l.principal)
      rate == Number(l.rate)
      termMonths == Times12(l.termYears)
  IN
  IF Falsy(principalOrig) \/ Falsy(rate) \/ Falsy(termMonths)
     \/ RLe[principalOrig, Zero] \/ RLe[rate, Zero] \/ RLe[termMonths, Zero]
    THEN Returned(UnknownRecord(l)) @@ [table |-> ST]
  ELSE IF HasDefaultEvent(l)
    THEN Returned(DefaultedRecord(l)) @@ [table |-> ST]
  ELSE \* const amort = buildAmortSchedule(loan): the schedule is built once
       CHOOSE o \in {valueLoan_p0_Setup(l, b, rfr, VC, ST, amort) :
                       amort \in {AmortizationSchedule(l)}} : TRUE

\* One iteration of the loop of part_000: the payment is the one of the
\* schedule row of the month, the late branch multiplies by
\* discountFactor(discountRate, recMonth + 1).
valueLoan_p0_Month(c) ==
  IF RLe[c.balance, Zero]
    THEN [c EXCEPT !.cashFlows = Append(@, Zero), !.m = @ + 1]
    ELSE SimulateMonth(c, RAdd[c.schedule[c.m].principal, c.schedule[c.m].interest],
                       c.m + c.recoveryLag,
                       discountFactor(c.discountRate, c.m + c.recoveryLag + 1))

\* What follows the loop, part_000: the ratios are over the seasoned principal.
valueLoan_p0_Finish(l, c, VC) ==
  [threw |-> "", loanId |-> l.loanId, riskTier |-> c.riskTier,
   discountRate |-> c.discountRate, npv |-> c.npv,
   npvRatio |-> IF RLt[Zero, c.principal] /\ IsFinite(c.npv)
                  THEN RSub[RDiv[c.npv, c.principal], One] ELSE Null,
   expectedLoss |-> IF RLt[Zero, c.principal]
                      THEN RDiv[RSub[c.totalDefaults, c.totalRecoveries], c.principal]
                      ELSE Zero,
   wal |-> IF RLt[Zero, c.totalCF]
             THEN RDiv[RDiv[c.walNumerator, c.totalCF], R(12)] ELSE NaN,
   \* const irr = calculateIRR(cashFlows, principal): the call's arguments
   irrCall |-> [cashFlows |-> c.cashFlows, principal |-> c.principal],
   riskBreakdown |-> c.riskBreakdown,
   curve |-> IF c.riskTier \in DOMAIN VC.riskTiers THEN VC.riskTiers[c.riskTier]
             ELSE Null]

(***************************************************************************)
(* valueLoan, valuationEngine.js, second draft                             *)
(***************************************************************************)
RangeError == "RangeError"

UnknownRecord_e2(l) ==
  [threw |-> "", loanId |-> l.loanId, riskTier |-> "UNKNOWN", discountRate |-> Null,
   npv |-> NaN, npvRatio |-> Null, expectedLoss |-> NaN, wal |-> NaN]

valueLoan_e2_Begin(l, b, rfr, VC, ST) ==
  LET principal == Number(l.principal)
      rate == Number(l.rate)
      termMonths == Times12(l.termYears)
  IN
  IF Falsy(principal) \/ Falsy(rate) \/ Falsy(termMonths)
    THEN Returned(UnknownRecord_e2(l)) @@ [table |-> ST]
  ELSE IF ~VC.loaded THEN Threw(CurvesNotLoaded) @@ [table |-> ST]
  ELSE
    LET riskTier == deriveRiskTier(b)
        st == getSchoolTier_e2(ST, b.school, b.opeid)
        schoolAdj == getSchoolAdjBps_e2(st.tier)
    IN
    IF st.threw # "" THEN Threw(st.threw) @@ [table |-> ST]
    ELSE IF riskTier \notin DOMAIN VC.riskTiers
      THEN Threw(TypeError) @@ [table |-> ST]
    ELSE
      LET curve == VC.riskTiers[riskTier]
          totalRiskBps == curve.riskPremiumBps + degreeAdj(VC, b) + schoolAdj
                          + yearAdj(VC, b) + gradAdj(VC, b)
          discountRate == RAdd[rfr, Norm[totalRiskBps, 10000]]
          queueLength == termMonths[1] + curve.recovery.recoveryLagMonths
      IN
      IF queueLength < 0 THEN Threw(RangeError) @@ [table |-> ST]
      ELSE
        [kind |-> "loop", table |-> st.table,
         loc |-> LoopStart(
           [originalPrincipal |-> principal, principal |-> principal,
            termMonths |-> termMonths[1],
            monthlyPayment |-> computeMonthlyPayment(principal, rate, termMonths[1]),
            schedule |-> <<>>,
            monthlyLoanRate |-> RDiv[rate, R(12)],
            monthlyPD |-> interpolateCumulativeDefaultsToMonthlyPD_p0(
                            curve.defaultCurve.cumulativeDefaultPct, termMonths[1]),
            monthlySMM |-> interpolateAnnualCPRToMonthlySMM_p0(
                             curve.prepaymentCurve.valuesPct, termMonths[1]),
            recoveryPct |-> RDiv[R(curve.recovery.grossRecoveryPct), R(100)],
            recoveryLag |-> curve.recovery.recoveryLagMonths,
            riskTier |-> riskTier, discountRate |-> discountRate,
            monthlyDiscountRate |-> RDiv[discountRate, R(12)],
            riskBreakdown |-> [baseRiskBps |-> curve.riskPremiumBps,
                               degreeAdj |-> degreeAdj(VC, b), schoolAdj |-> schoolAdj,
                               yearAdj |-> yearAdj(VC, b), gradAdj |-> gradAdj(VC, b),
                               totalRiskBps |-> totalRiskBps, schoolTier |-> st.tier],
            cashFlows |-> <<>>,
            recoveryQueue |-> Fill(queueLength, Zero)])]

\* One iteration of the loop of the second draft below `if (balance <= 0)
\* break`: recMonth = m + recoveryLag - 1, no cash-flow vector is kept.
valueLoan_e2_Month(c) ==
  [SimulateMonth(c, c.monthlyPayment, c.m + c.recoveryLag - 1,
                 discountFactor(c.discountRate, c.m + c.recoveryLag))
     EXCEPT !.cashFlows = <<>>]

valueLoan_e2_Finish(l, c) ==
  [threw |-> "", loanId |-> l.loanId, riskTier |-> c.riskTier,
   discountRate |-> c.discountRate, npv |-> c.npv,
   npvRatio |-> IF RLt[Zero, c.principal] /\ IsFinite(c.npv)
                  THEN RSub[RDiv[c.npv, c.principal], One] ELSE Null,
   expectedLoss |-> IF RLt[Zero, c.principal]
                      THEN RDiv[RSub[c.totalDefaults, c.totalRecoveries], c.principal]
                      ELSE Zero,
   wal |-> IF RLt[Zero, c.totalCF]
             THEN RDiv[RDiv[c.walNumerator, c.totalCF], R(12)] ELSE NaN,
   riskBreakdown |-> c.riskBreakdown]

(***************************************************************************)
(* valueLoan, valuationEngine.js, first draft.  The draft validates        *)
(* nothing, so its arithmetic runs on NaN as well.                         *)
(***************************************************************************)
NAdd(x, y) == IF x = NaN \/ y = NaN THEN NaN ELSE RAdd[x, y]
NSub(x, y) == IF x = NaN \/ y = NaN THEN NaN ELSE RSub[x, y]
NMul(x, y) == IF x = NaN \/ y = NaN THEN NaN ELSE RMul[x, y]
\* Math.min
NMin(x, y) == IF x = NaN \/ y = NaN THEN NaN ELSE RMin[x, y]
\* x <= y
NLe(x, y) == x # NaN /\ y # NaN /\ RLe[x, y]

deriveRiskTier_e1(b) ==
  LET own == IF Truthy(b.borrowerFico) THEN R(b.borrowerFico[1]) ELSE Zero
      other == IF Truthy(b.cosignerFico) THEN R(b.cosignerFico[1]) ELSE Zero
  IN TierOfBand(deriveFicoBand(RMax[own, other]), b.yearInSchool)

valueLoan_e1_Begin(l, b, rfr, VC, ST) ==
  IF ~VC.loaded THEN Threw(CurvesNotLoaded) @@ [table |-> ST]
  ELSE
    LET riskTier == deriveRiskTier_e1(b)
        termMonths == Times12(l.termYears)
        rate == Number(l.rate)
        principal == Number(l.principal)
        monthlyPayment ==
          IF principal = NaN \/ rate = NaN \/ termMonths = NaN THEN NaN
          ELSE computeMonthlyPayment(principal, rate, termMonths[1])
    IN
    IF riskTier \notin DOMAIN VC.riskTiers THEN Threw(TypeError) @@ [table |-> ST]
    ELSE
      [kind |-> "loop", table |-> ST,
       loc |-> [m |-> 1, balance |-> principal, npv |-> Zero, principal |-> principal,
                rate |-> rate, monthlyPayment |-> monthlyPayment,
                termMonths |-> termMonths, riskTier |-> riskTier,
                discountRate |-> RAdd[rfr, Norm[VC.riskTiers[riskTier].riskPremiumBps,
                                                10000]],
                broke |-> FALSE]]

\* m <= termMonths, false for a NaN term
InTerm_e1(c) == c.termMonths # NaN /\ RLe[R(c.m), c.termMonths]

valueLoan_e1_Month(c) ==
  LET interest == NMul(c.balance, NMul(c.rate, <<1, 12>>))
      principalPaid == NMin(NSub(c.monthlyPayment, interest), c.balance)
      balance == NSub(c.balance, principalPaid)
      cashFlow == NAdd(interest, principalPaid)
  IN [c EXCEPT !.balance = balance,
               !.npv = NAdd(@, NMul(cashFlow, discountFactor(c.discountRate, c.m))),
               !.m = @ + 1,
               !.broke = NLe(balance, Zero)]

valueLoan_e1_Finish(l, c) ==
  [threw |-> "", loanId |-> l.loanId, riskTier |-> c.riskTier,
   discountRate |-> c.discountRate, npv |-> c.npv,
   npvRatio |-> IF NLe(c.principal, Zero) \/ c.principal = NaN \/ c.npv = NaN
                  THEN Null
                  ELSE RSub[RDiv[c.npv, c.principal], One]]

(***************************************************************************)
(* Input domains                                                           *)
(***************************************************************************)
FicoScores == {600, 639, 640, 679, 680, 700, 719, 720, 759, 760, 800, 850}
FicoInputs == {Null, <<0>>} \cup {<<f>> : f \in FicoScores}
YearInputs == {Null} \cup {<<y>> : y \in 1..MaxYear}

MIT == <<"M", "I", "T">>
State == <<"S", "t", "a", "t", "e">>
EntryMIT == [key |-> <<"0", "1">>, name |-> MIT, tier |-> "Tier 1",
             median_earnings_10yr |-> <<90000>>]
EntryState == [key |-> <<"0", "2">>, name |-> State, tier |-> "Tier 2",
               median_earnings_10yr |-> Null]
EntryDefault == [key |-> DEFAULT, name |-> <<>>, tier |-> "Tier 3",
                 median_earnings_10yr |-> Null]
EntryDefaultNoTier == [key |-> DEFAULT, name |-> <<>>, tier |-> "",
                       median_earnings_10yr |-> <<40000>>]

NoSchoolTiers == [loaded |-> FALSE, entries |-> <<>>]
SchoolTables ==
  {[loaded |-> TRUE, entries |-> es] :
     es \in {<<>>, <<EntryMIT>>, <<EntryMIT, EntryDefault>>,
             <<EntryMIT, EntryState, EntryDefault>>,
             <<EntryState, EntryDefaultNoTier>>}}

OpeidInputs == {<<>>, <<"0", "1">>, <<" ", "0", "1", " ">>, <<"0", "2">>, <<"9", "9">>}
SchoolInputs == {<<>>, MIT, <<" ", "m", "i", "t", " ">>, State,
                 <<"U", "n", "k", "n", "o", "w", "n">>, <<"E", "l", "m">>}
TierLabels == {"Tier 1", "Tier 2", "Tier 3", "Unknown", "Tier 4", ""}

NoCall == [op |-> "none"]

\* Reference curves.  The percentages are those whose monthly hazard is
\* rational: 0 -> 0, 100*(4095/4096) -> 1/2, 100 -> 1.
PctHalf == <<102375, 1024>>
TierNames == {"LOW", "MEDIUM", "HIGH", "VERY_HIGH"}
PremiumOf(t) ==
  CASE t = "LOW" -> 250 [] t = "MEDIUM" -> 350 [] t = "HIGH" -> 550
    [] t = "VERY_HIGH" -> 750

CurveOf(t, pd, cpr, rec, lag) ==
  [riskPremiumBps |-> PremiumOf(t),
   defaultCurve |-> [cumulativeDefaultPct |-> pd],
   prepaymentCurve |-> [valuesPct |-> cpr],
   recovery |-> [grossRecoveryPct |-> rec, recoveryLagMonths |-> lag]]

NoAdjustments == [degree |-> <<>>, year |-> <<>>, grad |-> Null]
SomeAdjustments ==
  [degree |-> [d \in {"STEM", "Other"} |-> IF d = "STEM" THEN -25 ELSE 50],
   year |-> [y \in {"1", "5+"} |-> IF y = "1" THEN 75 ELSE -50],
   grad |-> <<-100>>]

CurveSet(tiers, pd, cpr, rec, lag, adj) ==
  [loaded |-> TRUE,
   riskTiers |-> [t \in tiers |-> CurveOf(t, pd, cpr, rec, lag)],
   degreeAdjustmentsBps |-> adj.degree,
   yearInSchoolAdjustmentsBps |-> adj.year,
   graduateAdjustmentBps |-> adj.grad]

NoCurves == [loaded |-> FALSE]
CurveSets ==
  {CurveSet(TierNames, pd, cpr, 50, lag, NoAdjustments) :
     pd \in {<<>>, <<Zero, PctHalf>>, <<PctHalf>>, <<R(100)>>},
     cpr \in {<<Zero>>, <<PctHalf>>}, lag \in 0..MaxLag}
  \cup {CurveSet(tiers, <<PctHalf>>, <<Zero>>, 50, 1, NoAdjustments) :
          tiers \in {{}, {"HIGH"}}}
  \cup {CurveSet(TierNames, <<PctHalf>>, <<Zero>>, rec, 1, SomeAdjustments) :
          rec \in {0, 100}}

ValidLoan ==
  [loanId |-> "L1", principal |-> <<4095>>, rate |-> <<12>>, termYears |-> <<1>>,
   graceYears |-> <<0>>, events |-> <<>>, monthsElapsed |-> 0]
Loans ==
  {[ValidLoan EXCEPT !.monthsElapsed = e] : e \in {0, 10, 11, 12}}
  \cup {[ValidLoan EXCEPT !.principal = x] : x \in {Null, <<0>>, <<-4095>>}}
  \cup {[ValidLoan EXCEPT !.rate = x] : x \in {Null, <<0>>}}
  \cup {[ValidLoan EXCEPT !.termYears = x] : x \in {Null, <<0>>, <<-1>>}}
  \cup {[ValidLoan EXCEPT !.events = <<[type |-> "payment", month |-> 1],
                                       [type |-> "default", month |-> 2]>>,
                          !.monthsElapsed = e] : e \in {1, 3}}

Borrowers ==
  {[borrowerFico |-> <<800>>, cosignerFico |-> Null, yearInSchool |-> <<3>>,
    isGraduateStudent |-> FALSE, degreeType |-> "STEM", school |-> MIT,
    opeid |-> <<"0", "1">>],
   [borrowerFico |-> Null, cosignerFico |-> Null, yearInSchool |-> Null,
    isGraduateStudent |-> TRUE, degreeType |-> "", school |-> MIT,
    opeid |-> <<>>],
   [borrowerFico |-> <<700>>, cosignerFico |-> <<650>>, yearInSchool |-> <<5>>,
    isGraduateStudent |-> FALSE, degreeType |-> "Business", school |-> State,
    opeid |-> <<" ", "0", "2", " ">>]}

DefaultRiskFree == <<1, 25>>

\* riskFreeRate is drawn so that the monthly discount rate of a call that
\* reaches the loop is 1 (or 1/2 on a horizon of at most MaxShort months):
\* the discount factors are then powers of 2 (or 3) and stay exact.
MonthlyDiscountGrid(h) == IF h <= MaxShort THEN {One, <<1, 2>>} ELSE {One}
RiskFreeChoices(o) ==
  IF o.kind = "loop"
    THEN {RSub[RMul[R(12), md], RSub[o.loc.discountRate, DefaultRiskFree]] :
            md \in IF "recoveryQueue" \in DOMAIN o.loc
                     THEN MonthlyDiscountGrid(o.loc.termMonths) ELSE {One}}
    ELSE {DefaultRiskFree}

(***************************************************************************)
(* Risk classifier on its own: Init draws the arguments, the action        *)
(* applies the function.                                                   *)
(***************************************************************************)
IdleEngine ==
  /\ VALUATION_CURVES = [loaded |-> FALSE]
  /\ pc = "idle" /\ engine = "" /\ loan = Null /\ borrower = Null
  /\ riskFreeRate = Null /\ loc = Null /\ result = Null
  /\ VALUATION_OVERRIDES = <<>> /\ BORROWERS = <<>>

RiskArgs ==
  {[op |-> "deriveFicoBand", fico |-> f, b |-> Null] :
     f \in {Null} \cup {R(x) : x \in FicoScores \cup {0}}}
  \cup
  {[op |-> "deriveRiskTier", fico |-> Null,
    b |-> [borrowerFico |-> bf, cosignerFico |-> cf, yearInSchool |-> y,
           isGraduateStudent |-> g]] :
     bf \in FicoInputs, cf \in FicoInputs, y \in YearInputs, g \in BOOLEAN}

InitRisk ==
  /\ IdleEngine /\ SCHOOLTIERS = NoSchoolTiers
  /\ arg \in RiskArgs /\ ret = NoCall

CallDeriveFicoBand ==
  /\ ret = NoCall /\ arg.op = "deriveFicoBand"
  /\ ret' = [op |-> "deriveFicoBand", band |-> deriveFicoBand(arg.fico)]
  /\ UNCHANGED <<VALUATION_OVERRIDES, BORROWERS>>
  /\ UNCHANGED <<VALUATION_CURVES, SCHOOLTIERS, pc, engine, loan, borrower,
                 riskFreeRate, loc, result, arg>>

CallDeriveRiskTier ==
  /\ ret = NoCall /\ arg.op = "deriveRiskTier"
  /\ ret' = [op |-> "deriveRiskTier", fico |-> blendedFico(arg.b),
             band |-> deriveFicoBand(blendedFico(arg.b)),
             riskTier |-> deriveRiskTier(arg.b)]
  /\ UNCHANGED <<VALUATION_OVERRIDES, BORROWERS>>
  /\ UNCHANGED <<VALUATION_CURVES, SCHOOLTIERS, pc, engine, loan, borrower,
                 riskFreeRate, loc, result, arg>>

NextRisk == CallDeriveFicoBand \/ CallDeriveRiskTier
SpecRisk == InitRisk /\ [][NextRisk]_vars

(***************************************************************************)
(* School tier lookup on its own, against every table of SchoolTables      *)
(***************************************************************************)
SchoolArgsOn(T) ==
  {[op |-> "getSchoolTier", draft |-> d, school |-> s, opeid |-> o, tier |-> "",
    table |-> T] :
     d \in {"part_001", "engine2"}, s \in SchoolInputs, o \in OpeidInputs}
  \cup
  {[op |-> "getSchoolAdjBps", draft |-> d, school |-> <<>>, opeid |-> <<>>,
    tier |-> t, table |-> T] : d \in {"part_001", "engine2"}, t \in TierLabels}

InitSchool ==
  /\ IdleEngine /\ SCHOOLTIERS \in SchoolTables \cup {NoSchoolTiers}
  /\ arg \in SchoolArgsOn(SCHOOLTIERS)
  /\ ret = NoCall

CallGetSchoolTier ==
  /\ ret = NoCall /\ arg.op = "getSchoolTier" /\ arg.draft = "part_001"
  /\ LET r == getSchoolTier(SCHOOLTIERS, arg.school, arg.opeid)
     IN /\ ret' = [op |-> "getSchoolTier", threw |-> r.threw, tier |-> r.tier]
        /\ SCHOOLTIERS' = r.table
  /\ UNCHANGED <<VALUATION_OVERRIDES, BORROWERS>>
  /\ UNCHANGED <<VALUATION_CURVES, pc, engine, loan, borrower,
                 riskFreeRate, loc, result, arg>>

CallGetSchoolTier_e2 ==
  /\ ret = NoCall /\ arg.op = "getSchoolTier" /\ arg.draft = "engine2"
  /\ LET r == getSchoolTier_e2(SCHOOLTIERS, arg.school, arg.opeid)
     IN /\ ret' = [op |-> "getSchoolTier", threw |-> r.threw, tier |-> r.tier]
        /\ SCHOOLTIERS' = r.table
  /\ UNCHANGED <<VALUATION_OVERRIDES, BORROWERS>>
  /\ UNCHANGED <<VALUATION_CURVES, pc, engine, loan, borrower,
                 riskFreeRate, loc, result, arg>>

CallGetSchoolAdjBps ==
  /\ ret = NoCall /\ arg.op = "getSchoolAdjBps" /\ arg.draft = "part_001"
  /\ ret' = [op |-> "getSchoolAdjBps", bps |-> getSchoolAdjBps(arg.tier)]
  /\ UNCHANGED <<VALUATION_OVERRIDES, BORROWERS>>
  /\ UNCHANGED <<VALUATION_CURVES, SCHOOLTIERS, pc, engine, loan, borrower,
                 riskFreeRate, loc, result, arg>>

CallGetSchoolAdjBps_e2 ==
  /\ ret = NoCall /\ arg.op = "getSchoolAdjBps" /\ arg.draft = "engine2"
  /\ ret' = [op |-> "getSchoolAdjBps", bps |-> getSchoolAdjBps_e2(arg.tier)]
  /\ UNCHANGED <<VALUATION_OVERRIDES, BORROWERS>>
  /\ UNCHANGED <<VALUATION_CURVES, SCHOOLTIERS, pc, engine, loan, borrower,
                 riskFreeRate, loc, result, arg>>

NextSchool ==
  \/ CallGetSchoolTier
  \/ CallGetSchoolTier_e2
  \/ CallGetSchoolAdjBps
  \/ CallGetSchoolAdjBps_e2
SpecSchool == InitSchool /\ [][NextSchool]_vars

(***************************************************************************)
(* Properties of the risk classifier (SpecRisk)                            *)
(***************************************************************************)
\* The band and tier rules as the specification words them, over a score
\* n/d and a nullable year.
ScoreAtLeast(x, k) == x[1] >= k * x[2]
ClaimBand(x) ==
  IF x = Null THEN "UNKNOWN"
  ELSE IF ScoreAtLeast(x, 760) THEN "A"
  ELSE IF ScoreAtLeast(x, 720) THEN "B"
  ELSE IF ScoreAtLeast(x, 680) THEN "C"
  ELSE IF ScoreAtLeast(x, 640) THEN "D"
  ELSE "E"
ClaimTier(x, y) ==
  IF ScoreAtLeast(x, 760) /\ y # Null /\ y[1] >= 3 THEN "LOW"
  ELSE IF ScoreAtLeast(x, 720) THEN "MEDIUM"
  ELSE IF ScoreAtLeast(x, 640) THEN "HIGH"
  ELSE "VERY_HIGH"
BandRank(band) ==
  CASE band = "A" -> 1 [] band = "B" -> 2 [] band = "C" -> 3
    [] band = "D" -> 4 [] band = "E" -> 5 [] OTHER -> 6

\* C6: deriveFicoBand maps >=760 to A, >=720 to B, >=680 to C, >=640 to D,
\* lower to E and null to UNKNOWN; deriveRiskTier gives LOW for band A with
\* yearInSchool >= 3, else MEDIUM for band A or B, else HIGH for band C or D,
\* else VERY_HIGH, on the blended score.
C6_TierRule ==
  /\ ret.op = "deriveFicoBand" => ret.band = ClaimBand(arg.fico)
  /\ ret.op = "deriveRiskTier" =>
       /\ ret.band = ClaimBand(ret.fico)
       /\ ret.riskTier = ClaimTier(ret.fico, arg.b.yearInSchool)

C6_Witness ==
  /\ ret.op = "deriveRiskTier" /\ ret.band = "B" /\ ret.fico = R(720)
  /\ ret.riskTier = "MEDIUM"

\* C7: with a present borrowerFico the blended score is never below it: it is
\* borrowerFico when the cosigner score is missing or not higher, and
\* 0.7*borrowerFico + 0.3*cosignerFico when it is higher; the band is never
\* worse than the band of the borrower's own score.
C7_BlendFloor ==
  (ret.op = "deriveRiskTier" /\ Truthy(arg.b.borrowerFico)) =>
    LET bf == arg.b.borrowerFico[1]
        cf == arg.b.cosignerFico
        x == ret.fico
    IN /\ x[1] >= bf * x[2]
       /\ (~Truthy(cf) \/ cf[1] <= bf) => x = R(bf)
       /\ (Truthy(cf) /\ cf[1] > bf) => 10 * x[1] = (7 * bf + 3 * cf[1]) * x[2]
       /\ BandRank(ret.band) <= BandRank(ClaimBand(R(bf)))

C7_Witness ==
  /\ ret.op = "deriveRiskTier"
  /\ arg.b.borrowerFico = <<720>> /\ arg.b.cosignerFico = <<600>>
  /\ ret.fico = R(720) /\ ret.band = "B"

\* C8: with borrowerFico missing (null or 0) the tier is the one of
\* cosignerFico alone; with both missing the score is 0 and the tier is
\* VERY_HIGH; the tier is always one of LOW, MEDIUM, HIGH, VERY_HIGH.
C8_MissingBorrower ==
  ret.op = "deriveRiskTier" =>
    /\ ret.riskTier \in {"LOW", "MEDIUM", "HIGH", "VERY_HIGH"}
    /\ (~Truthy(arg.b.borrowerFico) /\ Truthy(arg.b.cosignerFico)) =>
         /\ ret.fico = R(arg.b.cosignerFico[1])
         /\ ret.riskTier = ClaimTier(R(arg.b.cosignerFico[1]), arg.b.yearInSchool)
    /\ (~Truthy(arg.b.borrowerFico) /\ ~Truthy(arg.b.cosignerFico)) =>
         /\ ret.fico = Zero
         /\ ret.riskTier = "VERY_HIGH"

C8_Witness ==
  /\ ret.op = "deriveRiskTier"
  /\ arg.b.borrowerFico = Null /\ arg.b.cosignerFico = <<760>>
  /\ arg.b.yearInSchool = <<3>> /\ ret.riskTier = "LOW"

(***************************************************************************)
(* Properties of the school tier lookup (SpecSchool)                       *)
(***************************************************************************)
\* C9: getSchoolAdjBps is negative for Tier 1, 0 for Tier 2 and positive for
\* Tier 3, Unknown and every unrecognized label.
C9_SchoolAdjSigns ==
  ret.op = "getSchoolAdjBps" =>
    /\ arg.tier = "Tier 1" => ret.bps < 0
    /\ arg.tier = "Tier 2" => ret.bps = 0
    /\ arg.tier \notin {"Tier 1", "Tier 2"} => ret.bps > 0

\* The precedence of the specification: trimmed OPEID key, else normalized
\* name, else the DEFAULT entry.
ClaimSchoolEntry(T, school, opeid) ==
  IF opeid # <<>> /\ HasKey(T, trim(opeid)) THEN Lookup(T, trim(opeid))
  ELSE IF \E i \in 1..Len(T.entries) :
            toLowerCase(trim(T.entries[i].name)) = toLowerCase(trim(school))
            /\ T.entries[i].name # <<>>
    THEN T.entries[CHOOSE i \in 1..Len(T.entries) :
            toLowerCase(trim(T.entries[i].name)) = toLowerCase(trim(school))
            /\ T.entries[i].name # <<>>]
  ELSE Lookup(T, DEFAULT)

\* C10: on a loaded table that has a DEFAULT entry, getSchoolTier returns the
\* tier of the entry keyed by the trimmed OPEID, else of the entry whose name
\* equals the normalized school name, else of the DEFAULT entry.
C10_SchoolTierPrecedence ==
  (ret.op = "getSchoolTier" /\ arg.table.loaded /\ HasKey(arg.table, DEFAULT)
     /\ ClaimSchoolEntry(arg.table, arg.school, arg.opeid).tier # "") =>
    /\ ret.threw = ""
    /\ ret.tier = ClaimSchoolEntry(arg.table, arg.school, arg.opeid).tier

(***************************************************************************)
(* The valuation engine as a state machine                                 *)
(***************************************************************************)
Init ==
  /\ VALUATION_CURVES = NoCurves /\ SCHOOLTIERS = NoSchoolTiers
  /\ pc = "idle" /\ engine = "" /\ loan = Null /\ borrower = Null
  /\ riskFreeRate = Null /\ loc = Null /\ result = Null
  /\ arg = NoCall /\ ret = NoCall
  /\ VALUATION_OVERRIDES = <<>> /\ BORROWERS = <<>>

\* loadValuationCurves: VALUATION_CURVES = await res.json()
loadValuationCurves ==
  /\ pc = "idle"
  /\ \E c \in CurveSets : VALUATION_CURVES' = c
  /\ UNCHANGED <<VALUATION_OVERRIDES, BORROWERS>>
  /\ UNCHANGED <<SCHOOLTIERS, pc, engine, loan, borrower, riskFreeRate, loc,
                 result, arg, ret>>

\* loadSchoolTiers: SCHOOLTIERS = await res.json()
loadSchoolTiers ==
  /\ pc = "idle"
  /\ \E t \in SchoolTables : SCHOOLTIERS' = t
  /\ UNCHANGED <<VALUATION_OVERRIDES, BORROWERS>>
  /\ UNCHANGED <<VALUATION_CURVES, pc, engine, loan, borrower, riskFreeRate,
                 loc, result, arg, ret>>

\* The effect of the first part of a call on the state.
Enter(e, l, b, rfr, o) ==
  /\ o.kind # "outside"
  /\ engine' = e /\ loan' = l /\ borrower' = b /\ riskFreeRate' = rfr
  /\ SCHOOLTIERS' = o.table
  /\ IF o.kind = "loop"
       THEN pc' = "loop" /\ loc' = o.loc /\ result' = Null
       ELSE pc' = "done" /\ loc' = Null /\ result' = o.result
  /\ UNCHANGED <<VALUATION_OVERRIDES, BORROWERS>>
  /\ UNCHANGED <<VALUATION_CURVES, arg, ret>>

valueLoan ==
  /\ pc = "idle"
  /\ \E l \in Loans, b \in Borrowers :
       \E rfr \in RiskFreeChoices(
                    valueLoan_Begin(l, b, DefaultRiskFree, VALUATION_CURVES, SCHOOLTIERS)) :
         Enter("part_001", l, b, rfr,
               valueLoan_Begin(l, b, rfr, VALUATION_CURVES, SCHOOLTIERS))

valueLoan_Loop ==
  /\ pc = "loop" /\ engine = "part_001" /\ loc.m <= loc.termMonths
  /\ loc' = valueLoan_Month(loc)
  /\ UNCHANGED <<VALUATION_OVERRIDES, BORROWERS>>
  /\ UNCHANGED <<VALUATION_CURVES, SCHOOLTIERS, pc, engine, loan, borrower,
                 riskFreeRate, result, arg, ret>>

valueLoan_Return ==
  /\ pc = "loop" /\ engine = "part_001" /\ loc.m > loc.termMonths
  /\ result' = valueLoan_Finish(loan, loc, VALUATION_CURVES)
  /\ pc' = "done"
  /\ UNCHANGED <<VALUATION_OVERRIDES, BORROWERS>>
  /\ UNCHANGED <<VALUATION_CURVES, SCHOOLTIERS, engine, loan, borrower,
                 riskFreeRate, loc, arg, ret>>

\* The caller takes the record (or the exception); the next call may start.
Resume ==
  /\ pc = "done"
  /\ pc' = "idle" /\ engine' = "" /\ loan' = Null /\ borrower' = Null
  /\ riskFreeRate' = Null /\ loc' = Null /\ result' = Null
  /\ UNCHANGED <<VALUATION_OVERRIDES, BORROWERS>>
  /\ UNCHANGED <<VALUATION_CURVES, SCHOOLTIERS, arg, ret>>

valueLoan_p0 ==
  /\ pc = "idle"
  /\ \E l \in Loans, b \in Borrowers :
       \E rfr \in RiskFreeChoices(
                    valueLoan_p0_Begin(l, b, DefaultRiskFree, VALUATION_CURVES, SCHOOLTIERS)) :
         Enter("part_000", l, b, rfr,
               valueLoan_p0_Begin(l, b, rfr, VALUATION_CURVES, SCHOOLTIERS))

valueLoan_p0_Loop ==
  /\ pc = "loop" /\ engine = "part_000" /\ loc.m <= loc.termMonths
  /\ loc' = valueLoan_p0_Month(loc)
  /\ UNCHANGED <<VALUATION_OVERRIDES, BORROWERS>>
  /\ UNCHANGED <<VALUATION_CURVES, SCHOOLTIERS, pc, engine, loan, borrower,
                 riskFreeRate, result, arg, ret>>

valueLoan_p0_Return ==
  /\ pc = "loop" /\ engine = "part_000" /\ loc.m > loc.termMonths
  /\ result' = valueLoan_p0_Finish(loan, loc, VALUATION_CURVES)
  /\ pc' = "done"
  /\ UNCHANGED <<VALUATION_OVERRIDES, BORROWERS>>
  /\ UNCHANGED <<VALUATION_CURVES, SCHOOLTIERS, engine, loan, borrower,
                 riskFreeRate, loc, arg, ret>>

valueLoan_e2 ==
  /\ pc = "idle"
  /\ \E l \in Loans, b \in Borrowers :
       \E rfr \in RiskFreeChoices(
                    valueLoan_e2_Begin(l, b, DefaultRiskFree, VALUATION_CURVES, SCHOOLTIERS)) :
         Enter("engine2", l, b, rfr,
               valueLoan_e2_Begin(l, b, rfr, VALUATION_CURVES, SCHOOLTIERS))

valueLoan_e2_Loop ==
  /\ pc = "loop" /\ engine = "engine2"
  /\ loc.m <= loc.termMonths /\ ~RLe[loc.balance, Zero]
  /\ loc' = valueLoan_e2_Month(loc)
  /\ UNCHANGED <<VALUATION_OVERRIDES, BORROWERS>>
  /\ UNCHANGED <<VALUATION_CURVES, SCHOOLTIERS, pc, engine, loan, borrower,
                 riskFreeRate, result, arg, ret>>

valueLoan_e2_Return ==
  /\ pc = "loop" /\ engine = "engine2"
  /\ (loc.m > loc.termMonths \/ RLe[loc.balance, Zero])
  /\ result' = valueLoan_e2_Finish(loan, loc)
  /\ pc' = "done"
  /\ UNCHANGED <<VALUATION_OVERRIDES, BORROWERS>>
  /\ UNCHANGED <<VALUATION_CURVES, SCHOOLTIERS, engine, loan, borrower,
                 riskFreeRate, loc, arg, ret>>

valueLoan_e1 ==
  /\ pc = "idle"
  /\ \E l \in Loans, b \in Borrowers :
       \E rfr \in RiskFreeChoices(
                    valueLoan_e1_Begin(l, b, DefaultRiskFree, VALUATION_CURVES, SCHOOLTIERS)) :
         Enter("engine1", l, b, rfr,
               valueLoan_e1_Begin(l, b, rfr, VALUATION_CURVES, SCHOOLTIERS))

valueLoan_e1_Loop ==
  /\ pc = "loop" /\ engine = "engine1" /\ InTerm_e1(loc) /\ ~loc.broke
  /\ loc' = valueLoan_e1_Month(loc)
  /\ UNCHANGED <<VALUATION_OVERRIDES, BORROWERS>>
  /\ UNCHANGED <<VALUATION_CURVES, SCHOOLTIERS, pc, engine, loan, borrower,
                 riskFreeRate, result, arg, ret>>

valueLoan_e1_Return ==
  /\ pc = "loop" /\ engine = "engine1" /\ (~InTerm_e1(loc) \/ loc.broke)
  /\ result' = valueLoan_e1_Finish(loan, loc)
  /\ pc' = "done"
  /\ UNCHANGED <<VALUATION_OVERRIDES, BORROWERS>>
  /\ UNCHANGED <<VALUATION_CURVES, SCHOOLTIERS, engine, loan, borrower,
                 riskFreeRate, loc, arg, ret>>

Next ==
  \/ loadValuationCurves
  \/ loadSchoolTiers
  \/ valueLoan
  \/ valueLoan_Loop
  \/ valueLoan_Return
  \/ valueLoan_p0
  \/ valueLoan_p0_Loop
  \/ valueLoan_p0_Return
  \/ valueLoan_e2
  \/ valueLoan_e2_Loop
  \/ valueLoan_e2_Return
  \/ valueLoan_e1
  \/ valueLoan_e1_Loop
  \/ valueLoan_e1_Return
  \/ Resume

Spec == Init /\ [][Next]_vars

(***************************************************************************)
(* Properties of valueLoan (Spec)                                          *)
(***************************************************************************)
\* principal > 0, nominal rate > 0 and termYears > 0
ValidBasics(l) ==
  /\ l.principal # Null /\ l.principal[1] > 0
  /\ l.rate # Null /\ l.rate[1] > 0
  /\ l.termYears # Null /\ l.termYears[1] > 0

\* C1: for a loan with valid basics that carries a default event, valueLoan
\* (part_000, part_001) returns npv = 0, expectedLoss = 1.0 and wal = 0
\* whatever curve set is loaded, and the monthly loop is never entered.
C1_DefaultIsTerminal ==
  engine \in {"part_000", "part_001"} =>
    /\ (pc = "done" /\ VALUATION_CURVES.loaded /\ ValidBasics(loan)
          /\ HasDefaultEvent(loan)) =>
         /\ result.threw = ""
         /\ result.npv = Zero /\ result.expectedLoss = One /\ result.wal = Zero
    /\ pc = "loop" => ~HasDefaultEvent(loan)

C3_InvalidBasicsGiveUnknown ==
  (engine \in {"part_000", "part_001"} /\ ~ValidBasics(loan)) =>
    /\ pc # "loop"
    /\ pc = "done" => result = UnknownRecord(loan)

\* C4: with curves loaded and valid basics, valueLoan (part_001) never
\* throws on a missing reference lookup (risk tier without a curve, HIGH
\* fallback absent, school without an entry, table without DEFAULT): a record
\* is returned.
C4_MissingLookupsNeverThrow ==
  (pc = "done" /\ engine = "part_001" /\ VALUATION_CURVES.loaded
     /\ ValidBasics(loan)) =>
    result.threw = ""

\* C5: at the end of every simulation (part_000, part_001, second draft of
\* valuationEngine.js) the recoveries recognized equal recoveryPct times the
\* total defaulted amount: no recovery is dropped.
C5_RecoveriesNeverDropped ==
  (pc = "done" /\ loc # Null /\ engine \in {"part_000", "part_001", "engine2"}) =>
    loc.totalRecoveries = RMul[loc.recoveryPct, loc.totalDefaults]

\* C11: a valueLoan call (with the classification and the school-tier lookup
\* it performs) leaves the loan, the borrower, VALUATION_CURVES and the
\* school-tier table unchanged: no step of a call changes any of them.
C11_CallLeavesInputsAndTablesUnchanged ==
  [][(pc # "idle" \/ pc' # "idle") =>
       /\ VALUATION_CURVES' = VALUATION_CURVES
       /\ SCHOOLTIERS' = SCHOOLTIERS
       /\ pc = "loop" => (loan' = loan /\ borrower' = borrower)]_vars

(***************************************************************************)
(* The IRR solver                                                          *)
(***************************************************************************)
\* the bisection runs MAX_ITER = 100 times in the code; the model runs it
\* MaxIter times, which keeps every midpoint within the integer width
MaxIter == 6

\* Math.abs(npv) < PRECISION, PRECISION = 0.000001
WithinPrecision(x) ==
  /\ Abs(x[1]) <= x[2] \div 1000000
  /\ Abs(x[1]) * 1000000 < x[2]

\* npv = -principal + sum over t >= 1 of cashFlows[t] / Math.pow(1 + irr, t);
\* cashFlows[t] of the code is cashFlows[t + 1] here
RECURSIVE IrrNpv(_, _, _, _)
IrrNpv(cashFlows, principal, irr, t) ==
  IF t >= Len(cashFlows) THEN RNeg[principal]
  ELSE RAdd[RDiv[cashFlows[t + 1], RPow[RAdd[One, irr], t]],
            IrrNpv(cashFlows, principal, irr, t + 1)]

\* the loop with the test `i <= MAX_ITER`: one iteration too many
RECURSIVE Bisect_oneMore(_, _, _, _, _, _, _)
Bisect_oneMore(cashFlows, principal, min, max, irr, i, guarded) ==
  LET here == [min |-> min, max |-> max, irr |-> irr]
  IN
  IF i > MaxIter
    THEN LET annualIrr == RMul[irr, R(1200)]
         IN [value |-> IF guarded /\ ~RLt[R(-100), annualIrr] THEN NaN ELSE annualIrr,
             iterations |-> i, trace |-> <<here>>]
  ELSE
    CHOOSE r \in
      {IF WithinPrecision(npv)
         THEN [value |-> RMul[irr, R(1200)], iterations |-> i + 1, trace |-> <<here>>]
         ELSE LET lo == IF RLt[Zero, npv] THEN irr ELSE min
                  hi == IF RLt[Zero, npv] THEN max ELSE irr
              IN CHOOSE q \in
                   {[rest EXCEPT !.trace = <<here>> \o @] :
                      rest \in {Bisect_oneMore(cashFlows, principal, lo, hi,
                                       RDiv[RAdd[lo, hi], R(2)], i + 1, guarded)}} : TRUE :
         npv \in {IrrNpv(cashFlows, principal, irr, 1)}} : TRUE

\* The loop of calculateIRR from iteration i on.  guarded tells the two
\* drafts apart: part_001 tests the result after the loop, part_000 returns it.
\* The run is returned with the value: trace holds min, max and irr as they
\* stand each time the loop test is reached, iterations counts the bodies run.
RECURSIVE Bisect(_, _, _, _, _, _, _)
Bisect(cashFlows, principal, min, max, irr, i, guarded) ==
  LET here == [min |-> min, max |-> max, irr |-> irr]
  IN
  IF i >= MaxIter
    THEN LET annualIrr == RMul[irr, R(1200)]
         IN [value |-> IF guarded /\ ~RLt[R(-100), annualIrr] THEN NaN ELSE annualIrr,
             iterations |-> i, trace |-> <<here>>]
  ELSE
    CHOOSE r \in
      {IF WithinPrecision(npv)
         THEN [value |-> RMul[irr, R(1200)], iterations |-> i + 1, trace |-> <<here>>]
         ELSE LET lo == IF RLt[Zero, npv] THEN irr ELSE min
                  hi == IF RLt[Zero, npv] THEN max ELSE irr
              IN CHOOSE q \in
                   {[rest EXCEPT !.trace = <<here>> \o @] :
                      rest \in {Bisect(cashFlows, principal, lo, hi,
                                       RDiv[RAdd[lo, hi], R(2)], i + 1, guarded)}} : TRUE :
         npv \in {IrrNpv(cashFlows, principal, irr, 1)}} : TRUE

\* calculateIRR of part_001: min = -0.5, max = 0.5, irr = 0.008 (the guess
\* parameter is not read)
calculateIRR_Run(cashFlows, principal) ==
  Bisect(cashFlows, principal, <<-1, 2>>, <<1, 2>>, <<1, 125>>, 0, TRUE)

calculateIRR(cashFlows, principal) == calculateIRR_Run(cashFlows, principal).value

\* calculateIRR of part_000: min = -1.0, max = 1.0, irr = guess (0.1 when
\* the caller passes none)
calculateIRR_p0_Run(cashFlows, principal, guess) ==
  Bisect(cashFlows, principal, R(-1), One, guess, 0, FALSE)

calculateIRR_p0(cashFlows, principal, guess) ==
  calculateIRR_p0_Run(cashFlows, principal, guess).value

(***************************************************************************)
(* A whole call of valueLoan (part_001) as one function of its arguments   *)
(* and of the tables                                                       *)
(***************************************************************************)
RECURSIVE valueLoan_Run(_)
valueLoan_Run(c) ==
  IF c.m <= c.termMonths
    THEN CHOOSE r \in {valueLoan_Run(n) : n \in {valueLoan_Month(c)}} : TRUE
    ELSE c

valueLoan_Whole(l, b, rfr, VC, ST) ==
  CHOOSE r \in
    {IF o.kind = "loop"
       THEN [result |-> valueLoan_Finish(l, valueLoan_Run(o.loc), VC),
             table |-> o.table]
       ELSE [result |-> o.result, table |-> o.table] :
       o \in {valueLoan_Begin(l, b, rfr, VC, ST)}} : TRUE

(***************************************************************************)
(* The interpolators, the IRR solver and the whole valuation as functions: *)
(* Init draws the arguments, each action applies one function.  For        *)
(* valueLoan the call is made twice, at evaluation times of its choice;    *)
(* ret.calls keeps, per call, the time, the tables found and the result.   *)
(***************************************************************************)
\* interpolation horizons range over 0..MaxMonths
MaxMonths == 37

FnArgs ==
  LET blank == [op |-> "", curve |-> <<>>, horizon |-> 0, cashFlows |-> <<>>,
                principal |-> Zero, guess |-> <<1, 10>>, l |-> Null, b |-> Null,
                rfr |-> Null]
  IN
  {[blank EXCEPT !.op = o, !.curve = c, !.horizon = h] :
     o \in {"interpolatePD", "interpolateSMM", "interpolatePD_p0"},
     c \in {<<>>, <<R(1)>>, <<R(1), R(3)>>, <<R(1), R(2), R(3)>>,
            <<Zero, PctHalf>>, <<R(100)>>},
     h \in 0..MaxMonths}
  \cup
  {[blank EXCEPT !.op = o, !.cashFlows = <<RNeg[R(p)]>> \o cf, !.principal = R(p)] :
     o \in {"calculateIRR", "calculateIRR_p0"}, p \in {100, 500},
     cf \in {<<>>, <<Zero>>, <<R(55)>>, <<R(377)>>, <<R(504)>>, <<R(1000)>>}}
  \cup
  {[blank EXCEPT !.op = "calculateIRR_p0", !.cashFlows = <<R(-100)>> \o cf,
                 !.principal = R(100), !.guess = R(2)] :
     cf \in {<<>>, <<R(55)>>, <<R(1000)>>}}
  \cup
  {[blank EXCEPT !.op = "valueLoan", !.l = ValidLoan, !.b = b] : b \in Borrowers}

InitFn ==
  /\ arg \in FnArgs
  /\ ret = [op |-> "none", calls |-> <<>>]
  /\ pc = "idle" /\ engine = "" /\ loan = Null /\ borrower = Null
  /\ loc = Null /\ result = Null
  /\ VALUATION_OVERRIDES = <<>> /\ BORROWERS = <<>>
  /\ IF arg.op = "valueLoan"
       THEN /\ VALUATION_CURVES \in
                 {CurveSet(TierNames, pd, <<Zero>>, 50, 1, NoAdjustments) :
                    pd \in {<<>>, <<PctHalf>>}}
            /\ SCHOOLTIERS \in {NoSchoolTiers,
                                [loaded |-> TRUE,
                                 entries |-> <<EntryMIT, EntryState, EntryDefault>>]}
            /\ riskFreeRate \in
                 RiskFreeChoices(valueLoan_Begin(arg.l, arg.b, DefaultRiskFree,
                                                 VALUATION_CURVES, SCHOOLTIERS))
       ELSE /\ VALUATION_CURVES = NoCurves /\ SCHOOLTIERS = NoSchoolTiers
            /\ riskFreeRate = Null

CallInterpolatePD ==
  /\ ret.op = "none" /\ arg.op = "interpolatePD"
  /\ ret' = [op |-> "interpolate", calls |-> <<>>,
             v |-> interpolateCumulativeDefaultsToMonthlyPD(arg.curve, arg.horizon)]
  /\ UNCHANGED <<VALUATION_OVERRIDES, BORROWERS>>
  /\ UNCHANGED <<VALUATION_CURVES, SCHOOLTIERS, pc, engine, loan, borrower,
                 riskFreeRate, loc, result, arg>>

CallInterpolateSMM ==
  /\ ret.op = "none" /\ arg.op = "interpolateSMM"
  /\ ret' = [op |-> "interpolate", calls |-> <<>>,
             v |-> interpolateAnnualCPRToMonthlySMM(arg.curve, arg.horizon)]
  /\ UNCHANGED <<VALUATION_OVERRIDES, BORROWERS>>
  /\ UNCHANGED <<VALUATION_CURVES, SCHOOLTIERS, pc, engine, loan, borrower,
                 riskFreeRate, loc, result, arg>>

CallInterpolatePD_p0 ==
  /\ ret.op = "none" /\ arg.op = "interpolatePD_p0"
  /\ ret' = [op |-> "interpolate", calls |-> <<>>,
             v |-> interpolateCumulativeDefaultsToMonthlyPD_p0(arg.curve, arg.horizon)]
  /\ UNCHANGED <<VALUATION_OVERRIDES, BORROWERS>>
  /\ UNCHANGED <<VALUATION_CURVES, SCHOOLTIERS, pc, engine, loan, borrower,
                 riskFreeRate, loc, result, arg>>

\* calculateIRR and the irr field valueLoan stores:
\* Number.isFinite(irr) ? irr : NaN
CallCalculateIRR ==
  /\ ret.op = "none" /\ arg.op = "calculateIRR"
  /\ \E run \in {calculateIRR_Run(arg.cashFlows, arg.principal)} :
       ret' = [op |-> "calculateIRR", calls |-> <<>>, irr |-> run.value,
               field |-> IF IsFinite(run.value) THEN run.value ELSE NaN,
               iterations |-> run.iterations, trace |-> run.trace]
  /\ UNCHANGED <<VALUATION_OVERRIDES, BORROWERS>>
  /\ UNCHANGED <<VALUATION_CURVES, SCHOOLTIERS, pc, engine, loan, borrower,
                 riskFreeRate, loc, result, arg>>

CallCalculateIRR_p0 ==
  /\ ret.op = "none" /\ arg.op = "calculateIRR_p0"
  /\ \E run \in {calculateIRR_p0_Run(arg.cashFlows, arg.principal, arg.guess)} :
       ret' = [op |-> "calculateIRR", calls |-> <<>>, irr |-> run.value,
               field |-> IF IsFinite(run.value) THEN run.value ELSE NaN,
               iterations |-> run.iterations, trace |-> run.trace]
  /\ UNCHANGED <<VALUATION_OVERRIDES, BORROWERS>>
  /\ UNCHANGED <<VALUATION_CURVES, SCHOOLTIERS, pc, engine, loan, borrower,
                 riskFreeRate, loc, result, arg>>

\* valueLoan({loan, borrower, riskFreeRate}) called when monthsElapsed rows of
\* the schedule are dated on or before `new Date()`
CallValueLoan ==
  /\ arg.op = "valueLoan" /\ Len(ret.calls) < 2
  /\ \E t \in {0, 10, 11} :
       LET o == valueLoan_Whole([arg.l EXCEPT !.monthsElapsed = t], arg.b,
                                riskFreeRate, VALUATION_CURVES, SCHOOLTIERS)
       IN /\ ret' = [op |-> "valueLoan",
                     calls |-> Append(ret.calls,
                                      [time |-> t, tables |-> SCHOOLTIERS,
                                       result |-> o.result])]
          /\ SCHOOLTIERS' = o.table
  /\ UNCHANGED <<VALUATION_OVERRIDES, BORROWERS>>
  /\ UNCHANGED <<VALUATION_CURVES, pc, engine, loan, borrower,
                 riskFreeRate, loc, result, arg>>

NextFn ==
  \/ CallInterpolatePD
  \/ CallInterpolateSMM
  \/ CallInterpolatePD_p0
  \/ CallCalculateIRR
  \/ CallCalculateIRR_p0
  \/ CallValueLoan
SpecFn == InitFn /\ [][NextFn]_vars

(***************************************************************************)
(* Properties of the functions (SpecFn)                                    *)
(***************************************************************************)
\* C12: two calls of valueLoan with equal loan, borrower and riskFreeRate on
\* equal reference tables return equal results, whenever they are made and
\* whatever ran between them.
C12_EqualArgumentsGiveEqualResults ==
  ret.op = "valueLoan" =>
    \A i, j \in 1..Len(ret.calls) :
      ret.calls[i].tables = ret.calls[j].tables =>
        ret.calls[i].result = ret.calls[j].result

\* C14: both interpolators return exactly horizonMonths entries; the months
\* beyond the curve's span repeat the last monthly rate (0 for an empty curve).
C14_VectorHasHorizonLength ==
  ret.op = "interpolate" =>
    /\ Len(ret.v) = arg.horizon
    /\ \A k \in 1..Len(ret.v) :
         k > 12 * Len(arg.curve) =>
           ret.v[k] = IF arg.curve = <<>> THEN Zero ELSE ret.v[12 * Len(arg.curve)]

\* the annual series as the specification words it: first differences of the
\* cumulative default series, the CPR series as it is
ClaimAnnual(op, curve) ==
  IF op = "interpolateSMM" THEN curve
  ELSE [i \in 1..Len(curve) |->
          IF i = 1 THEN curve[1]
          ELSE Norm[curve[i][1] * curve[i - 1][2] - curve[i - 1][1] * curve[i][2],
                    curve[i][2] * curve[i - 1][2]]]

\* C15: within the curve's span, month k (0-based) of the PD vector carries
\* the monthly hazard of the first-differenced annual default of year
\* floor(k/12), and of the SMM vector the hazard of the CPR of that year; the
\* cumulative curve [1%, 2%, 3%] gives one hazard, that of 1%, in all 36 months.
C15_MonthCarriesHazardOfItsYear ==
  (ret.op = "interpolate" /\ arg.op \in {"interpolatePD", "interpolateSMM"}) =>
    /\ \A k \in 0..(Len(ret.v) - 1) :
         k < 12 * Len(arg.curve) =>
           ret.v[k + 1] = MonthlyHazard(ClaimAnnual(arg.op, arg.curve)[(k \div 12) + 1])
    /\ (arg.op = "interpolatePD" /\ arg.curve = <<R(1), R(2), R(3)>>) =>
         \A k \in 1..Len(ret.v) : k <= 36 => ret.v[k] = [hazardOfAnnual |-> <<1, 100>>]

C15_Witness ==
  /\ ret.op = "interpolate" /\ arg.op = "interpolatePD"
  /\ arg.curve = <<R(1), R(2), R(3)>> /\ arg.horizon = 36
  /\ Len(ret.v) = 36
  /\ ret.v[1] = [hazardOfAnnual |-> <<1, 100>>] /\ ret.v[36] = ret.v[1]

\* C17: calculateIRR never returns a finite annual rate below -100 (percent):
\* its result, and the irr field built from it, is NaN or a finite rate
\* >= -100.
C17_IrrNeverBelowMinus100 ==
  ret.op = "calculateIRR" =>
    \A x \in {ret.irr, ret.field} :
      x = NaN \/ (IsFinite(x) /\ RLe[R(-100), x])

(***************************************************************************)
(* Properties of the simulation (Spec)                                     *)
(***************************************************************************)
\* a simulation of part_001 is under way or has just ended
Simulating == engine = "part_001" /\ pc \in {"loop", "done"} /\ loc # Null

\* max(scheduleLength - currentIndex - 1, 1), currentIndex the 0-based index
\* of the latest row dated on or before the evaluation time (-1 for none)
ClaimHorizon(l) ==
  LET amort == buildAmortSchedule(l)
      remaining == Len(amort) - (CurrentRowIndex(l, amort) - 1) - 1
  IN IF remaining > 1 THEN remaining ELSE 1

\* C13: the horizon of the simulation (the months of the loop, the term of
\* the payment, the length asked of the interpolators) is
\* max(scheduleLength - currentIndex - 1, 1).
C13_HorizonIsRemainingFlooredAtOne ==
  Simulating =>
    /\ loc.termMonths = ClaimHorizon(loan)
    /\ Len(loc.monthlyPD) = ClaimHorizon(loan)
    /\ Len(loc.monthlySMM) = ClaimHorizon(loan)
    /\ pc = "done" => loc.m = ClaimHorizon(loan) + 1

\* no adjustment is configured: the adjustment maps are empty, no graduate
\* adjustment is set and no school-tier table is loaded
NothingConfigured ==
  /\ VALUATION_CURVES.degreeAdjustmentsBps = <<>>
  /\ VALUATION_CURVES.yearInSchoolAdjustmentsBps = <<>>
  /\ VALUATION_CURVES.graduateAdjustmentBps = Null
  /\ ~SCHOOLTIERS.loaded

\* C16: discountRate = riskFreeRate + totalRiskBps/10000, totalRiskBps the sum
\* of the tier premium and the four adjustments; an adjustment whose category
\* is not configured is 0 bps, so with nothing configured the discount rate
\* is riskFreeRate + riskPremiumBps/10000 (0.04 and 200 bps give 0.06).
C16_DiscountRateIsRiskFreePlusPremium ==
  Simulating =>
    LET rb == loc.riskBreakdown
    IN /\ loc.discountRate = RAdd[riskFreeRate, Norm[rb.totalRiskBps, 10000]]
       /\ rb.totalRiskBps = rb.baseRiskBps + rb.degreeAdj + rb.schoolAdj
                            + rb.yearAdj + rb.gradAdj
       /\ ~borrower.isGraduateStudent => rb.gradAdj = 0
       /\ NothingConfigured =>
            /\ rb.totalRiskBps = rb.baseRiskBps
            /\ loc.discountRate = RAdd[riskFreeRate, Norm[rb.baseRiskBps, 10000]]

\* the simulation ran with all monthly PD and SMM at 0 and discounts at the
\* loan's own rate
AtPar ==
  /\ Simulating /\ loc.termMonths >= 1
  /\ \A k \in 1..Len(loc.monthlyPD) : loc.monthlyPD[k] = Zero
  /\ \A k \in 1..Len(loc.monthlySMM) : loc.monthlySMM[k] = Zero
  /\ loc.monthlyDiscountRate = loc.monthlyLoanRate

\* C18: par pricing.  With PD = SMM = 0 and the discount rate equal to the
\* nominal rate the NPV equals the balance the simulation starts from, and
\* the balance reaches 0 exactly at the last month.
C18_ParPricing ==
  AtPar =>
    /\ loc.m <= loc.termMonths => RLt[Zero, loc.balance]
    /\ pc = "done" =>
         /\ loc.balance = Zero
         /\ loc.npv = loc.principal /\ result.npv = loc.principal
         /\ loan.monthsElapsed = 0 => result.npv = R(loan.principal[1])

C18_Witness ==
  /\ AtPar /\ pc = "done" /\ loan.monthsElapsed = 0 /\ loc.termMonths = 12
  /\ result.npv = R(4095) /\ loc.balance = Zero

\* C19: npvRatio and expectedLoss are null when the principal they are
\* divided by is <= 0, wal is null when the total discounted cash flow is
\* <= 0: none of them is then reported as a number.
C19_NullOnNonPositiveDenominator ==
  (pc = "done" /\ loc # Null /\ engine \in {"part_000", "part_001", "engine2"}) =>
    LET denominator == IF engine = "part_001" THEN loc.originalPrincipal
                       ELSE loc.principal
    IN /\ RLe[denominator, Zero] =>
            (result.npvRatio = Null /\ result.expectedLoss = Null)
       /\ RLe[loc.totalCF, Zero] => result.wal = Null

\* the months' cash flows are all >= 0 and the loan is paid off at the end
AmortizedNonNegative ==
  /\ Simulating /\ pc = "done" /\ loc.termMonths >= 1
  /\ loc.balance = Zero /\ RLt[Zero, loc.totalCF]
  /\ \A k \in 2..Len(loc.cashFlows) : RLe[Zero, loc.cashFlows[k]]

\* the whole repayment falls in the last simulated month
SingleBalloon ==
  \A k \in 2..Len(loc.cashFlows) :
    k < loc.termMonths + 1 => loc.cashFlows[k] = Zero

\* C20 as stated: for a fully amortizing loan with non-negative cash flows wal
\* is strictly less than remainingMonths/12, for every remaining term >= 1.
C20_WalBelowTermForEveryTerm ==
  AmortizedNonNegative => RLt[result.wal, Norm[loc.termMonths, 12]]

\* C20 as the code has it: wal never exceeds remainingMonths/12; it is
\* strictly less when a cash flow is received before the last simulated
\* month (always so for a remaining term >= 2), and equals the term when the
\* whole repayment falls in the last month (always so for a term of 1).
C20_WalBelowTermUnlessBalloon ==
  AmortizedNonNegative =>
    /\ RLe[result.wal, Norm[loc.termMonths, 12]]
    /\ ~SingleBalloon => RLt[result.wal, Norm[loc.termMonths, 12]]
    /\ SingleBalloon => result.wal = Norm[loc.termMonths, 12]
    /\ loc.termMonths >= 2 => ~SingleBalloon
    /\ loc.termMonths = 1 => SingleBalloon

C20_Witness ==
  /\ AmortizedNonNegative /\ loc.termMonths = 12 /\ ~SingleBalloon
  /\ RLt[result.wal, One] /\ RLt[Zero, result.wal]

(***************************************************************************)
(* Properties of the solver and of the whole call (SpecFn)                 *)
(***************************************************************************)
\* the months left to simulate for a call made at the time of ret.calls[i]
RemainingAt(i) ==
  LET l == [arg.l EXCEPT !.monthsElapsed = ret.calls[i].time]
      amort == buildAmortSchedule(l)
  IN Len(amort) - (CurrentRowIndex(l, amort) - 1) - 1

\* C21: a call ends after a bounded number of steps.  The loop runs once per
\* month m = 1..remainingMonths, each run adding one entry to the cash-flow
\* vector, and calculateIRR runs its loop body at most MAX_ITER times (MaxIter
\* here) and then returns, also for cash flows with no root in the bounds.
C21_LoopAndSolverAreBounded ==
  /\ ret.op = "valueLoan" =>
       \A i \in 1..Len(ret.calls) :
         "irrCall" \in DOMAIN ret.calls[i].result =>
           Len(ret.calls[i].result.irrCall.cashFlows) = RemainingAt(i) + 1
  /\ ret.op = "calculateIRR" =>
       /\ ret.iterations <= MaxIter
       /\ Len(ret.trace) <= MaxIter + 1
       /\ ret.irr = NaN \/ IsFinite(ret.irr)

C21_Witness ==
  /\ ret.op = "calculateIRR" /\ arg.op = "calculateIRR" /\ Len(arg.cashFlows) = 1
  /\ ret.iterations = MaxIter /\ ret.irr = NaN

\* C26: the bracket of calculateIRR.  At every iteration min <= irr <= max and
\* -1 <= min, max <= 1; an iteration whose NPV at irr is positive sets min to
\* irr, any other sets max to irr; the next irr is the midpoint; the width
\* max - min never grows.
C26_BracketIsMaintained ==
  ret.op = "calculateIRR" =>
    \A k \in 1..Len(ret.trace) :
      LET b == ret.trace[k]
      IN /\ RLe[b.min, b.irr] /\ RLe[b.irr, b.max]
         /\ RLe[R(-1), b.min] /\ RLe[b.max, One]
         /\ k > 1 =>
              LET a == ret.trace[k - 1]
                  positive == RLt[Zero, IrrNpv(arg.cashFlows, arg.principal, a.irr, 1)]
              IN /\ positive => (b.min = a.irr /\ b.max = a.max)
                 /\ ~positive => (b.max = a.irr /\ b.min = a.min)
                 /\ b.irr = RDiv[RAdd[b.min, b.max], R(2)]
                 /\ RLe[RSub[b.max, b.min], RSub[a.max, a.min]]

(***************************************************************************)
(* Properties of the cash-flow loop (Spec)                                 *)
(***************************************************************************)
\* a step of the loop of part_000 or part_001: month loc.m is simulated
MonthStep ==
  /\ engine \in {"part_000", "part_001"}
  /\ pc = "loop" /\ pc' = "loop" /\ loc'.m = loc.m + 1

\* the payment scheduled for month loc.m
ClaimPayment ==
  IF engine = "part_001" THEN loc.monthlyPayment
  ELSE RAdd[loc.schedule[loc.m].principal, loc.schedule[loc.m].interest]

\* C22: in a month with balance > 0, principalPaid = min(scheduledPayment -
\* interest, balance), prepay = SMM of what is left after principalPaid,
\* defaultAmt = PD of what is left after prepay, the next balance is balance -
\* principalPaid - prepay - defaultAmt, and the cash flow is interest +
\* principalPaid + prepay + the recovery due that month: the defaulted amount
\* is no part of it.
C22_MonthIsFullyAccounted ==
  [][(MonthStep /\ RLt[Zero, loc.balance]) =>
       LET interest == RMul[loc.balance, loc.monthlyLoanRate]
           principalPaid == RMin[RSub[ClaimPayment, interest], loc.balance]
           prepay == RMul[loc.monthlySMM[loc.m], RSub[loc.balance, principalPaid]]
           defaultAmt == RMul[loc.monthlyPD[loc.m],
                              RSub[RSub[loc.balance, principalPaid], prepay]]
           recovery == loc'.recoveryQueue[loc.m + 1]
       IN /\ loc'.balance =
               RSub[RSub[RSub[loc.balance, principalPaid], prepay], defaultAmt]
          /\ loc'.totalDefaults = RAdd[loc.totalDefaults, defaultAmt]
          /\ loc'.cashFlows =
               Append(loc.cashFlows,
                      RAdd[RAdd[interest, principalPaid], RAdd[prepay, recovery]])
    ]_vars

C22_Witness ==
  /\ engine = "part_001" /\ pc = "loop" /\ loc.m = 2
  /\ RLt[Zero, loc.balance] /\ RLt[Zero, loc.totalDefaults]
  /\ RLt[Zero, loc.monthlySMM[1]] /\ RLt[Zero, loc.monthlyPD[1]]
  /\ RLt[loc.totalDefaults, RSub[loc.principal, loc.balance]]
  /\ Len(loc.cashFlows) = 2

\* C23: a month that starts with balance <= 0 emits a cash flow of 0 and
\* changes nothing else, and so does every later month; the vector handed to
\* the IRR solver has remainingMonths + 1 entries.
C23_RetiredLoanEmitsZeros ==
  [][/\ (MonthStep /\ RLe[loc.balance, Zero]) =>
          loc' = [loc EXCEPT !.m = @ + 1, !.cashFlows = Append(@, Zero)]
     /\ (engine \in {"part_000", "part_001"} /\ pc = "loop" /\ pc' = "done") =>
          /\ result'.irrCall.cashFlows = loc.cashFlows
          /\ Len(result'.irrCall.cashFlows) = loc.termMonths + 1
    ]_vars

C23_Witness ==
  /\ engine = "part_001" /\ pc = "done" /\ loc # Null /\ loc.termMonths >= 3
  /\ loc.balance = Zero
  /\ RLt[Zero, loc.cashFlows[2]]
  /\ loc.cashFlows[loc.termMonths] = Zero /\ loc.cashFlows[loc.termMonths + 1] = Zero
  /\ Len(result.irrCall.cashFlows) = loc.termMonths + 1

\* C27: the outlay handed to the IRR solver is the balance the cash flows were
\* simulated from, the negated month-0 entry of the vector, for seasoned
\* loans too.
C27_OutlayIsStartingBalance ==
  (pc = "done" /\ loc # Null /\ engine \in {"part_000", "part_001"}) =>
    /\ result.irrCall.principal = RNeg[result.irrCall.cashFlows[1]]
    /\ result.irrCall.principal = loc.principal

\* the slot of the model's recoveryQueue that holds what is due in month j
ClaimSlot(j) == IF engine = "engine2" THEN j ELSE j + 1

\* the recoveries scheduled for the months 1..n
RECURSIVE ClaimDue(_)
ClaimDue(n) ==
  IF n = 0 THEN Zero ELSE RAdd[loc.recoveryQueue[ClaimSlot(n)], ClaimDue(n - 1)]

\* C24: a default of d in month m is recovered, d * recoveryPct, in the cash
\* flow of month m + recoveryLagMonths and of no other month, whenever that
\* month is within the horizon: the default is scheduled for that month only,
\* and at the end of the simulation every recovery scheduled for a month of
\* the horizon has been received.
C24_RecoveryArrivesAfterLag ==
  [][/\ (engine \in {"part_001", "engine2"} /\ pc = "loop" /\ pc' = "loop"
         /\ loc'.m = loc.m + 1 /\ loc.m + loc.recoveryLag <= loc.termMonths) =>
          \A j \in 1..loc.termMonths :
            loc'.recoveryQueue[ClaimSlot(j)] =
              IF j = loc.m + loc.recoveryLag
                THEN RAdd[loc.recoveryQueue[ClaimSlot(j)],
                          RMul[RSub[loc'.totalDefaults, loc.totalDefaults],
                               loc.recoveryPct]]
                ELSE loc.recoveryQueue[ClaimSlot(j)]
     /\ (engine \in {"part_001", "engine2"} /\ pc = "loop" /\ pc' = "done") =>
          loc.totalRecoveries = ClaimDue(loc.termMonths)
    ]_vars

\* C25: a default of month m whose recovery month m + recoveryLagMonths is
\* beyond the horizon is not queued: in month m the recovery is added to the
\* total recoveries and, discounted, to the NPV.
C25_LateRecoveryIsRecognizedAtOnce ==
  [][(MonthStep /\ RLt[Zero, loc.balance]
      /\ loc.m + loc.recoveryLag > loc.termMonths) =>
       LET lateRecovery == RMul[RSub[loc'.totalDefaults, loc.totalDefaults],
                                loc.recoveryPct]
           due == loc.recoveryQueue[loc.m + 1]
       IN /\ loc'.recoveryQueue = loc.recoveryQueue
          /\ loc'.totalRecoveries = RAdd[RAdd[loc.totalRecoveries, due], lateRecovery]
          /\ lateRecovery = Zero \/
               RLt[RAdd[loc.npv, RDiv[loc'.cashFlows[loc.m + 1],
                                      RPow[RAdd[One, loc.monthlyDiscountRate], loc.m]]],
                   loc'.npv]
    ]_vars

(***************************************************************************)
(* valuationOverrides.js.  VALUATION_OVERRIDES is the Map of the module, a *)
(* function from loan ids to override objects; an object is a function    *)
(* from attribute names to values.  ret.calls logs the setOverride calls.  *)
(***************************************************************************)
\* at most MaxPatches calls of setOverride are made
MaxPatches == 3

\* the spread with the operands' precedence swapped: a's value wins
Spread_firstWins(a, b) ==
  [k \in DOMAIN a \cup DOMAIN b |-> IF k \in DOMAIN a THEN a[k] ELSE b[k]]

\* { ...a, ...b }: the keys of both, b's value where both have the key
Spread(a, b) ==
  [k \in DOMAIN a \cup DOMAIN b |-> IF k \in DOMAIN b THEN b[k] ELSE a[k]]

\* override ? { ...systemBorrower, ...override } : systemBorrower
getEffectiveBorrower(l, systemBorrower) ==
  IF l.loanId \in DOMAIN VALUATION_OVERRIDES
    THEN Spread(systemBorrower, VALUATION_OVERRIDES[l.loanId])
    ELSE systemBorrower

LoanIds == {"L1", "L2"}
SystemBorrowers ==
  {[borrowerId |-> "B1", borrowerFico |-> <<700>>, school |-> MIT],
   [borrowerId |-> "B2", borrowerFico |-> Null]}
Patches ==
  {<<>>, [borrowerFico |-> <<620>>], [borrowerFico |-> Null],
   [school |-> State], [borrowerFico |-> <<800>>, yearInSchool |-> <<2>>]}

InitOverrides ==
  /\ IdleEngine /\ SCHOOLTIERS = NoSchoolTiers
  /\ arg = NoCall /\ ret = [op |-> "overrides", calls |-> <<>>]

\* setOverride(loanId, patch)
setOverride ==
  /\ Len(ret.calls) < MaxPatches
  /\ \E loanId \in LoanIds, patch \in Patches :
       LET current == IF loanId \in DOMAIN VALUATION_OVERRIDES
                        THEN VALUATION_OVERRIDES[loanId] ELSE <<>>
       IN /\ VALUATION_OVERRIDES' =
               [k \in DOMAIN VALUATION_OVERRIDES \cup {loanId} |->
                  IF k = loanId THEN Spread(current, patch)
                  ELSE VALUATION_OVERRIDES[k]]
          /\ ret' = [ret EXCEPT !.calls = Append(@, [loanId |-> loanId,
                                                      patch |-> patch])]
  /\ UNCHANGED <<VALUATION_CURVES, SCHOOLTIERS, pc, engine, loan, borrower,
                 riskFreeRate, loc, result, arg, BORROWERS>>

\* a caller asks for the effective borrower of a loan
CallGetEffectiveBorrower ==
  /\ \E id \in LoanIds, sb \in SystemBorrowers :
       /\ arg' = [op |-> "getEffectiveBorrower", loan |-> [loanId |-> id],
                  systemBorrower |-> sb]
       /\ result' = getEffectiveBorrower([loanId |-> id], sb)
  /\ UNCHANGED <<VALUATION_CURVES, SCHOOLTIERS, pc, engine, loan, borrower,
                 riskFreeRate, loc, ret, VALUATION_OVERRIDES, BORROWERS>>

NextOverrides ==
  \/ setOverride
  \/ CallGetEffectiveBorrower
SpecOverrides == InitOverrides /\ [][NextOverrides]_vars

\* the patches logged for a loan id, oldest first
RECURSIVE ClaimPatchesOf(_, _)
ClaimPatchesOf(calls, id) ==
  IF calls = <<>> THEN <<>>
  ELSE (IF calls[1].loanId = id THEN <<calls[1].patch>> ELSE <<>>)
       \o ClaimPatchesOf(Tail(calls), id)

\* the value the claim gives attribute k: that of the most recent patch that
\* set k, else the system borrower's
RECURSIVE ClaimValue(_, _, _)
ClaimValue(patches, sb, k) ==
  IF patches = <<>> THEN sb[k]
  ELSE IF k \in DOMAIN patches[Len(patches)] THEN patches[Len(patches)][k]
  ELSE ClaimValue(SubSeq(patches, 1, Len(patches) - 1), sb, k)

\* C28: after any sequence of setOverride calls the effective borrower of a
\* loan has, per attribute, the value of the most recent patch for that loan
\* id that set it, else the system borrower's value; the overrides of other
\* loan ids play no part, and without an override the system borrower is
\* returned as it is.
C28_EffectiveBorrowerIsLastPatchPerAttribute ==
  ret.op = "overrides" =>
    \A id \in LoanIds, sb \in SystemBorrowers :
      LET patches == ClaimPatchesOf(ret.calls, id)
          eff == getEffectiveBorrower([loanId |-> id], sb)
      IN /\ patches = <<>> => eff = sb
         /\ DOMAIN eff = DOMAIN sb \cup UNION {DOMAIN patches[i] : i \in 1..Len(patches)}
         /\ \A k \in DOMAIN eff : eff[k] = ClaimValue(patches, sb, k)

C28_Witness ==
  /\ ret.op = "overrides" /\ arg # NoCall /\ Len(ret.calls) = 3
  /\ ret.calls[1] = [loanId |-> "L1", patch |-> [borrowerFico |-> <<620>>]]
  /\ ret.calls[2] = [loanId |-> "L2", patch |-> [school |-> State]]
  /\ ret.calls[3].loanId = "L1" /\ ret.calls[3].patch = [borrowerFico |-> <<800>>,
                                                         yearInSchool |-> <<2>>]
  /\ arg.loan.loanId = "L1" /\ arg.systemBorrower.borrowerId = "B1"
  /\ result = [borrowerId |-> "B1", borrowerFico |-> <<800>>, school |-> MIT,
               yearInSchool |-> <<2>>]

(***************************************************************************)
(* borrowerStore.js.  BORROWERS is the array of the module.  loc holds the *)
(* loadBorrowers calls in flight, each at its await (`fetch` or `json`);   *)
(* ret counts the operations and keeps, per borrower id, the record last   *)
(* written to the store (Null after the store was cleared).                *)
(***************************************************************************)
\* at most MaxLoads calls of loadBorrowers are in flight at a time
MaxLoads == 2
\* at most MaxOps operations are started on the store
MaxOps == 4

BorrowerIds == {"B1", "B2"}
BorrowerRecords ==
  {[borrowerId |-> id, borrowerName |-> n, borrowerFico |-> <<700>>] :
     id \in BorrowerIds, n \in {"Ann", "Bob"}}
\* the payloads of the borrowers file: every id at most once
Payloads ==
  {<<>>}
  \cup {<<r>> : r \in {x \in BorrowerRecords : x.borrowerId = "B1"}}
  \cup {<<r, [borrowerId |-> "B2", borrowerName |-> "Ann", borrowerFico |-> <<700>>]>> :
          r \in {x \in BorrowerRecords : x.borrowerId = "B1"}}

\* BORROWERS.find(b => b.borrowerId === borrowerId)
getBorrowerById(borrowerId) ==
  IF \E i \in 1..Len(BORROWERS) : BORROWERS[i].borrowerId = borrowerId
    THEN BORROWERS[CHOOSE i \in 1..Len(BORROWERS) :
                     /\ BORROWERS[i].borrowerId = borrowerId
                     /\ \A j \in 1..(i - 1) : BORROWERS[j].borrowerId # borrowerId]
    ELSE Null

InitBorrowers ==
  /\ IdleEngine /\ SCHOOLTIERS = NoSchoolTiers /\ arg = NoCall
  /\ ret = [op |-> "borrowers", ops |-> 0, written |-> [id \in BorrowerIds |-> Null]]

\* loadBorrowers(url) up to `await fetch(url)`
loadBorrowers ==
  /\ ret.op = "borrowers" /\ ret.ops < MaxOps /\ Len(loc) < MaxLoads
  /\ loc' = Append(loc, [at |-> "fetch", payload |-> <<>>])
  /\ ret' = [ret EXCEPT !.ops = @ + 1]
  /\ UNCHANGED <<VALUATION_CURVES, SCHOOLTIERS, pc, engine, loan, borrower,
                 riskFreeRate, result, arg, VALUATION_OVERRIDES, BORROWERS>>

\* the fetch of a call resolves: BORROWERS.length = 0, then the call waits
\* for `await res.json()`
loadBorrowers_Fetched ==
  /\ ret.op = "borrowers"
  /\ \E i \in 1..Len(loc), p \in Payloads :
       /\ loc[i].at = "fetch"
       /\ loc' = [loc EXCEPT ![i] = [at |-> "json", payload |-> p]]
  /\ BORROWERS' = <<>>
  /\ ret' = [ret EXCEPT !.written = [id \in BorrowerIds |-> Null]]
  /\ UNCHANGED <<VALUATION_CURVES, SCHOOLTIERS, pc, engine, loan, borrower,
                 riskFreeRate, result, arg, VALUATION_OVERRIDES>>

\* the body of a call is parsed: BORROWERS.push(...payload), the call ends
loadBorrowers_Parsed ==
  /\ ret.op = "borrowers"
  /\ \E i \in 1..Len(loc) :
       /\ loc[i].at = "json"
       /\ BORROWERS' = BORROWERS \o loc[i].payload
       /\ ret' = [ret EXCEPT !.written =
                    [id \in BorrowerIds |->
                       IF \E k \in 1..Len(loc[i].payload) : loc[i].payload[k].borrowerId = id
                         THEN loc[i].payload[CHOOSE k \in 1..Len(loc[i].payload) :
                                               loc[i].payload[k].borrowerId = id]
                         ELSE @[id]]]
       /\ loc' = SubSeq(loc, 1, i - 1) \o SubSeq(loc, i + 1, Len(loc))
  /\ UNCHANGED <<VALUATION_CURVES, SCHOOLTIERS, pc, engine, loan, borrower,
                 riskFreeRate, result, arg, VALUATION_OVERRIDES>>

\* the fetch or the parse of a call rejects: the call ends where it is
loadBorrowers_Rejected ==
  /\ ret.op = "borrowers"
  /\ \E i \in 1..Len(loc) :
       loc' = SubSeq(loc, 1, i - 1) \o SubSeq(loc, i + 1, Len(loc))
  /\ UNCHANGED <<VALUATION_CURVES, SCHOOLTIERS, pc, engine, loan, borrower,
                 riskFreeRate, result, arg, ret, VALUATION_OVERRIDES, BORROWERS>>

\* upsertBorrower(borrower)
upsertBorrower ==
  /\ ret.op = "borrowers" /\ ret.ops < MaxOps
  /\ \E b \in BorrowerRecords :
       /\ BORROWERS' =
            IF getBorrowerById(b.borrowerId) # Null
              THEN [BORROWERS EXCEPT
                      ![CHOOSE i \in 1..Len(BORROWERS) :
                          /\ BORROWERS[i].borrowerId = b.borrowerId
                          /\ \A j \in 1..(i - 1) :
                               BORROWERS[j].borrowerId # b.borrowerId] = b]
              ELSE Append(BORROWERS, b)
       /\ ret' = [ret EXCEPT !.ops = @ + 1, !.written[b.borrowerId] = b]
  /\ UNCHANGED <<VALUATION_CURVES, SCHOOLTIERS, pc, engine, loan, borrower,
                 riskFreeRate, loc, result, arg, VALUATION_OVERRIDES>>

\* ensureBorrowerExists(borrowerId, loanName)
ensureBorrowerExists ==
  /\ ret.op = "borrowers" /\ ret.ops < MaxOps
  /\ \E borrowerId \in BorrowerIds, loanName \in {"", "Ann"} :
       LET b == [borrowerId |-> borrowerId,
                 borrowerName |-> IF loanName # "" THEN loanName ELSE borrowerId,
                 borrowerFico |-> Null]
       IN IF getBorrowerById(borrowerId) = Null
            THEN /\ BORROWERS' = Append(BORROWERS, b)
                 /\ ret' = [ret EXCEPT !.ops = @ + 1, !.written[borrowerId] = b]
                 /\ result' = b
            ELSE /\ BORROWERS' = BORROWERS
                 /\ ret' = [ret EXCEPT !.ops = @ + 1]
                 /\ result' = getBorrowerById(borrowerId)
  /\ UNCHANGED <<VALUATION_CURVES, SCHOOLTIERS, pc, engine, loan, borrower,
                 riskFreeRate, loc, arg, VALUATION_OVERRIDES>>

NextBorrowers ==
  \/ loadBorrowers
  \/ loadBorrowers_Fetched
  \/ loadBorrowers_Parsed
  \/ loadBorrowers_Rejected
  \/ upsertBorrower
  \/ ensureBorrowerExists
SpecBorrowers == InitBorrowers /\ [][NextBorrowers]_vars

\* C29: the store never holds two records with the same borrowerId, and
\* getBorrowerById returns the record most recently written for the id,
\* whatever the interleaving of loadBorrowers (payloads with unique ids),
\* upsertBorrower and ensureBorrowerExists.
C29_BorrowerIdsAreUnique ==
  ret.op = "borrowers" =>
    /\ \A i, j \in 1..Len(BORROWERS) :
         i # j => BORROWERS[i].borrowerId # BORROWERS[j].borrowerId
    /\ \A id \in BorrowerIds : getBorrowerById(id) = ret.written[id]

(***************************************************************************)
(* worker.js, saveJsonToGitHub.  pc is the await the call stands at, loc   *)
(* its locals (body.sha as `sha`) together with the log of the requests    *)
(* made: puts lists, per PUT, the sha it carried, the sha the latest GET   *)
(* returned and whether the PUT was answered ok.  result is the response   *)
(* handleFetch gives the client.                                           *)
(***************************************************************************)
Shas == {"s1", "s2", "s3"}
SaveArgs ==
  {[op |-> "save", path |-> p, sha |-> s] :
     p \in {"data/loans.json", "data/borrowers.json"}, s \in {Null, <<"s1">>}}

\* noStoreJson({ success: true, sha })
SaveSuccess(sha) == [status |-> 200, success |-> TRUE, sha |-> sha]

\* the catch of handleFetch: noStoreJson({ error: err.message, ... }, 500)
SaveError(message) == [status |-> 500, error |-> message]

\* the statements after the retry block with the PUT body taken as read
SaveFallThrough_success(c) == SaveSuccess("s1")

\* the statements after the retry block, reached when the first PUT failed
\* and the second GET was not ok: putRes.json() on the body putRes.text() has
\* already consumed rejects with a TypeError
SaveFallThrough(c) == SaveError(TypeError)

InitSave ==
  /\ IdleEngine /\ SCHOOLTIERS = NoSchoolTiers
  /\ arg \in SaveArgs /\ ret = [op |-> "save"]

\* saveJsonToGitHub(env, {path, content, message, sha}) up to the first
\* `await fetch(url, { headers })`
saveJsonToGitHub ==
  /\ ret.op = "save" /\ pc = "idle" /\ result = Null
  /\ pc' = "getSha"
  /\ loc' = [sha |-> Null, fetched |-> Null, puts |-> <<>>]
  /\ UNCHANGED <<VALUATION_CURVES, SCHOOLTIERS, engine, loan, borrower,
                 riskFreeRate, result, arg, ret, VALUATION_OVERRIDES, BORROWERS>>

\* the first GET is answered: not ok throws, ok sets body.sha = data.sha and
\* sends the PUT
saveJsonToGitHub_GotSha ==
  /\ pc = "getSha"
  /\ \/ \E s \in Shas :
          /\ loc' = [loc EXCEPT !.sha = s, !.fetched = s]
          /\ pc' = "put" /\ result' = result
     \/ \E m \in {"Failed to get latest SHA", "fetch failed"} :
          /\ pc' = "done" /\ result' = SaveError(m) /\ loc' = loc
  /\ UNCHANGED <<VALUATION_CURVES, SCHOOLTIERS, engine, loan, borrower,
                 riskFreeRate, arg, ret, VALUATION_OVERRIDES, BORROWERS>>

\* the first PUT is answered: ok returns success with the new sha, not ok
\* reads the error text and sends the second GET
saveJsonToGitHub_Put ==
  /\ pc = "put"
  /\ \/ \E n \in Shas :
          /\ loc' = [loc EXCEPT !.puts = Append(@, [sha |-> loc.sha,
                                                    fetched |-> loc.fetched,
                                                    ok |-> TRUE])]
          /\ pc' = "done" /\ result' = SaveSuccess(n)
     \/ /\ loc' = [loc EXCEPT !.puts = Append(@, [sha |-> loc.sha,
                                                  fetched |-> loc.fetched,
                                                  ok |-> FALSE])]
        /\ \/ pc' = "retryGet" /\ result' = result
           \/ pc' = "done" /\ result' = SaveError("fetch failed")
  /\ UNCHANGED <<VALUATION_CURVES, SCHOOLTIERS, engine, loan, borrower,
                 riskFreeRate, arg, ret, VALUATION_OVERRIDES, BORROWERS>>

\* the second GET is answered: ok sets body.sha = retryData.sha and sends the
\* second PUT, not ok falls through to the statements after the retry block
saveJsonToGitHub_RetryGot ==
  /\ pc = "retryGet"
  /\ \/ \E s \in Shas :
          /\ loc' = [loc EXCEPT !.sha = s, !.fetched = s]
          /\ pc' = "retryPut" /\ result' = result
     \/ /\ pc' = "done" /\ loc' = loc
        /\ result' \in {SaveFallThrough(loc), SaveError("fetch failed")}
  /\ UNCHANGED <<VALUATION_CURVES, SCHOOLTIERS, engine, loan, borrower,
                 riskFreeRate, arg, ret, VALUATION_OVERRIDES, BORROWERS>>

\* the second PUT is answered: ok returns success, not ok throws
\* `Retry failed`
saveJsonToGitHub_RetryPut ==
  /\ pc = "retryPut"
  /\ \/ \E n \in Shas :
          /\ loc' = [loc EXCEPT !.puts = Append(@, [sha |-> loc.sha,
                                                    fetched |-> loc.fetched,
                                                    ok |-> TRUE])]
          /\ pc' = "done" /\ result' = SaveSuccess(n)
     \/ \E m \in {"Retry failed", "fetch failed"} :
          /\ loc' = [loc EXCEPT !.puts = Append(@, [sha |-> loc.sha,
                                                    fetched |-> loc.fetched,
                                                    ok |-> FALSE])]
          /\ pc' = "done" /\ result' = SaveError(m)
  /\ UNCHANGED <<VALUATION_CURVES, SCHOOLTIERS, engine, loan, borrower,
                 riskFreeRate, arg, ret, VALUATION_OVERRIDES, BORROWERS>>

NextSave ==
  \/ saveJsonToGitHub
  \/ saveJsonToGitHub_GotSha
  \/ saveJsonToGitHub_Put
  \/ saveJsonToGitHub_RetryGot
  \/ saveJsonToGitHub_RetryPut
SpecSave == InitSave /\ [][NextSave]_vars

====
